---- MODULE Spec2Model ----
(***************************************************************************)
(* quic-relay: the handler chain (ratelimit-global, sni-router,            *)
(* simple-router, forwarder) and the session engine that drives it.        *)
(*                                                                         *)
(* The specifications share the handler definitions:                       *)
(*   Spec, LiveSpec  the proxy: listen task, idle sweeper, shutdown task   *)
(*             and one backend-to-client pump per session;                 *)
(*   ReloadSpec      the proxy with hot-reload;                            *)
(*   FlowSpec, FlowTimedSpec  the data path, datagram by datagram;         *)
(*   ConnSpec        Forwarder.OnConnect statement by statement;           *)
(*   UnitSpec, PacketSpec, TermSpec  handlers called directly on fresh     *)
(*             contexts, the way the package's unit tests call them;       *)
(*   BuildSpec       routers built from configurations;                    *)
(*   CallSpec        one sni-router called by several tasks at once.       *)
(***************************************************************************)
EXTENDS Integers, Sequences, FiniteSets, TLC

\* ---------------------------------------------------------------- bounds
MaxSessions == 2      \* Session objects in memory at one time
MaxCalls == 4         \* round-robin selections per router instance, called directly
MaxConns == 2         \* connections that reach a router in one run of the proxy
MaxLimit == 1         \* largest max_parallel_connections configured
MaxCount == 3         \* largest _session_count a direct call is given
MaxPackets == 2       \* datagrams per direction on the data path, after the Initials
MaxReloads == 1   \* hot-reloads in one run
MaxContexts == 3  \* contexts handed to the terminator
BufLen == 4           \* bytes of a pooled buffer (longer than any datagram here)
CounterBits == 3      \* width of a round-robin counter (atomic.Uint64, scaled down)
MaxTasks == 3         \* tasks that call OnConnect on one router at the same time
MaxList == 3          \* longest backend list of a configuration

\* ------------------------------------------------------- configuration
Clients == {"c1", "c2"}

\* routes of the sni-router: SNI -> ordered, non-empty backend list
Routes == [sni \in {"a.com", "b.com"} |->
             IF sni = "a.com" THEN <<"b1", "b2">> ELSE <<"b3">>]

\* backends of the simple-router
StaticBackends == <<"s1", "s2", "s3">>

\* SNIs a ClientHello can carry ("" is the empty SNI)
SNIs == {"a.com", "b.com", "other.com"}

Chains == { <<"ratelimit-global", "sni-router", "forwarder">>,
            <<"sni-router", "ratelimit-global", "forwarder">>,
            <<"ratelimit-global", "simple-router", "forwarder">> }

NoError == ""
NoSession == 0

\* ClientHello as the context carries it; present = FALSE is the nil pointer
Hello(sni) == [present |-> TRUE, sni |-> sni]
NilHello == [present |-> FALSE, sni |-> ""]

\* a fresh Context for one new connection
NewContext(client, hello, count) ==
  [client |-> client, hello |-> hello, backend |-> "", count |-> count,
   session |-> NoSession]

NoContext == NewContext("", NilHello, 0)

Result(action, error) == [action |-> action, error |-> error]

VARIABLES
  chain,          \* the configured handler chain
  limit,          \* RateLimitGlobalHandler.maxParallelConnections
  routeCounter,   \* route.counter, one per SNI route
  staticCounter,  \* StaticHandler.counter
  sessionCounter, \* ForwarderHandler.sessionCounter
  sess,           \* the Session objects in memory, by slot
  table,          \* session table: client address -> session
  listen,         \* the listen task: position and the context it works on
  closer,         \* per closing task: position in OnDisconnect / remove
  shutdown,       \* the shutdown signal was received
  walk,           \* handlers invoked by the current (last) OnConnect walk
  picks,          \* selections so far in this run, per router and backend
  badWrites,      \* sessions whose backend socket got a write begun after closed = true
  pump,           \* per session: position of backendToClient, the buffer it holds, n
  bufs,           \* per session: GetBuffer and PutBuffer calls of its pump
  backendQ,       \* per session: datagrams the backend sent, not yet read
  readLog,        \* per session: datagrams its pump has read, in order
  toClient,       \* per session: byte sequences written to the client, in order
  toBackend,      \* per session: byte sequences written to the backend socket
  clientLog,      \* per session: datagrams of the client the forwarder accepted
  cids,           \* session table, secondary index: connection ID -> session
  learned,        \* per session: SCIDs of long-header packets its pump processed
  listenClosed,   \* graceful shutdown has closed the listen socket
  atSignal,       \* IDs of the sessions in the table when the signal arrived
  admitted,       \* per session: the chain instance it was admitted under
  dispatch,       \* the chain instance the listen task's current datagram goes through
  reloads,        \* hot-reloads that replaced the chain so far
  reloaded,       \* the last reload request: what it asked for and what became of it
  backendEntries, \* TerminatorHandler.backends: SNI -> backendEntry
  conns,          \* the contexts handed to the terminator and what was called on them
  built,          \* the router a constructor returned last, with its counters
  callers         \* per task: its OnConnect call on the shared sni-router

\* the data path, followed datagram by datagram in FlowSpec only
flowVars == <<pump, bufs, backendQ, readLog, toClient, toBackend, clientLog,
              cids, learned>>

\* the end of a graceful shutdown
downVars == <<listenClosed, atSignal>>

\* what the handlers and the tasks of a session never write
\* hot-reload: which instance of the chain serves what
reloadVars == <<admitted, dispatch, reloads, reloaded>>

\* the terminator handler, called directly in TermSpec only
termVars == <<backendEntries, conns>>

\* routers built from a configuration, and routers called by several tasks
callVars == <<built, callers>>

auxVars == <<downVars, reloadVars, termVars, callVars>>

vars == <<chain, limit, routeCounter, staticCounter, sessionCounter, sess,
          table, listen, closer, shutdown, walk, picks, badWrites, flowVars, auxVars>>

\* ------------------------------------------------------------ handlers

\* RateLimitGlobalHandler.OnConnect; RateLimitOnConnectOff is the handler
\* with > in place of >=
RateLimitOnConnectOff(ctx, L) ==
  IF ctx.count > L
    THEN Result("Drop", "max connections exceeded (" \o ToString(ctx.count)
                         \o "/" \o ToString(L) \o ")")
    ELSE Result("Continue", NoError)

RateLimitOnConnect(ctx, L) ==
  IF ctx.count >= L
    THEN Result("Drop", "max connections exceeded (" \o ToString(ctx.count)
                         \o "/" \o ToString(L) \o ")")
    ELSE Result("Continue", NoError)

\* route.next: idx := counter.Add(1) - 1; backends[idx % len(backends)];
\* RouteNextSkew is next() without the - 1
RouteNextSkew(backends, counter) ==
  [backend |-> backends[((counter + 1) % Len(backends)) + 1],
   counter |-> counter + 1]

\* atomic.Uint64: arithmetic modulo CounterWord
CounterWord == 2 ^ CounterBits

RouteNext(backends, counter) ==
  LET added == (counter + 1) % CounterWord
      idx == (added - 1) % CounterWord
  IN [backend |-> backends[(idx % Len(backends)) + 1],
      index |-> idx % Len(backends),
      counter |-> added]

\* DynamicHandler.OnConnect: result, ctx["backend"] and the route counters
\* after it. Three deviating routers stand before it: one counter shared by
\* all routes, an unknown SNI passed on with Continue, and no check for the
\* empty SNI.
DynamicOnConnectShared(ctx, counters) ==
  IF ~ctx.hello.present
    THEN [result |-> Result("Drop", "no ClientHello"),
          backend |-> ctx.backend, counters |-> counters]
  ELSE IF ctx.hello.sni = ""
    THEN [result |-> Result("Drop", "no SNI"),
          backend |-> ctx.backend, counters |-> counters]
  ELSE IF ctx.hello.sni \notin DOMAIN Routes
    THEN [result |-> Result("Drop", "unknown SNI: " \o ctx.hello.sni),
          backend |-> ctx.backend, counters |-> counters]
  ELSE LET n == RouteNext(Routes[ctx.hello.sni], counters[ctx.hello.sni])
       IN [result |-> Result("Continue", NoError),
           backend |-> n.backend,
           counters |-> [r \in DOMAIN counters |-> n.counter]]

DynamicOnConnectLenient(ctx, counters) ==
  IF ~ctx.hello.present
    THEN [result |-> Result("Drop", "no ClientHello"),
          backend |-> ctx.backend, counters |-> counters]
  ELSE IF ctx.hello.sni = ""
    THEN [result |-> Result("Drop", "no SNI"),
          backend |-> ctx.backend, counters |-> counters]
  ELSE IF ctx.hello.sni \notin DOMAIN Routes
    THEN [result |-> Result("Continue", NoError),
          backend |-> ctx.backend, counters |-> counters]
  ELSE LET n == RouteNext(Routes[ctx.hello.sni], counters[ctx.hello.sni])
       IN [result |-> Result("Continue", NoError),
           backend |-> n.backend,
           counters |-> [counters EXCEPT ![ctx.hello.sni] = n.counter]]

DynamicOnConnectNoEmptyCheck(ctx, counters) ==
  IF ~ctx.hello.present
    THEN [result |-> Result("Drop", "no ClientHello"),
          backend |-> ctx.backend, counters |-> counters]
  ELSE IF ctx.hello.sni \notin DOMAIN Routes
    THEN [result |-> Result("Drop", "unknown SNI: " \o ctx.hello.sni),
          backend |-> ctx.backend, counters |-> counters]
  ELSE LET n == RouteNext(Routes[ctx.hello.sni], counters[ctx.hello.sni])
       IN [result |-> Result("Continue", NoError),
           backend |-> n.backend,
           counters |-> [counters EXCEPT ![ctx.hello.sni] = n.counter]]

DynamicOnConnect(ctx, counters) ==
  IF ~ctx.hello.present
    THEN [result |-> Result("Drop", "no ClientHello"),
          backend |-> ctx.backend, counters |-> counters]
  ELSE IF ctx.hello.sni = ""
    THEN [result |-> Result("Drop", "no SNI"),
          backend |-> ctx.backend, counters |-> counters]
  ELSE IF ctx.hello.sni \notin DOMAIN Routes
    THEN [result |-> Result("Drop", "unknown SNI: " \o ctx.hello.sni),
          backend |-> ctx.backend, counters |-> counters]
  ELSE LET n == RouteNext(Routes[ctx.hello.sni], counters[ctx.hello.sni])
       IN [result |-> Result("Continue", NoError),
           backend |-> n.backend,
           counters |-> [counters EXCEPT ![ctx.hello.sni] = n.counter]]

\* StaticHandler.OnConnect
\* idx := h.counter.Add(1) - 1; h.backends[idx%uint64(len(h.backends))]
StaticNext(backends, counter) ==
  LET added == (counter + 1) % CounterWord
      idx == (added - 1) % CounterWord
  IN [backend |-> backends[(idx % Len(backends)) + 1],
      index |-> idx % Len(backends),
      counter |-> added]

StaticOnConnect(ctx, counter) ==
  LET n == StaticNext(StaticBackends, counter)
  IN [result |-> Result("Continue", NoError),
      backend |-> n.backend,
      counter |-> n.counter]

\* TerminatorHandler, as its tests show it: OnConnect drops a context without
\* SNI or without backend; otherwise it stores the backend under the SNI
\* (first connection) or counts one more reference, and redirects the
\* context to the internal listener. OnDisconnect gives the reference back
\* and deletes the entry with the last one; TerminatorOnDisconnectKeep is a
\* handler that never deletes.
TermSNIs == {"a.com", "b.com"}
Contexts == 1..MaxContexts
InternalAddr == "internal"
NoEntries == [x \in {} |-> [addr |-> "", refCount |-> 0]]

TerminatorOnConnect(ctx, entries) ==
  IF ~ctx.hello.present \/ ctx.hello.sni = ""
    THEN [result |-> Result("Drop", "no SNI"), ctx |-> ctx, entries |-> entries]
  ELSE IF ctx.backend = ""
    THEN [result |-> Result("Drop", "no backend"), ctx |-> ctx, entries |-> entries]
  ELSE LET sni == ctx.hello.sni
           be == IF sni \in DOMAIN entries
                   THEN [entries[sni] EXCEPT !.refCount = @ + 1]
                   ELSE [addr |-> ctx.backend, refCount |-> 1]
       IN [result |-> Result("Continue", NoError),
           ctx |-> [ctx EXCEPT !.backend = InternalAddr],
           entries |-> [x \in DOMAIN entries \cup {sni} |->
                          IF x = sni THEN be ELSE entries[x]]]

TerminatorOnDisconnectKeep(ctx, entries) ==
  IF ctx.hello.sni \in DOMAIN entries
    THEN [entries EXCEPT ![ctx.hello.sni].refCount = @ - 1]
    ELSE entries

TerminatorOnDisconnect(ctx, entries) ==
  IF ~ctx.hello.present \/ ctx.hello.sni \notin DOMAIN entries THEN entries
  ELSE IF entries[ctx.hello.sni].refCount - 1 <= 0
    THEN [x \in DOMAIN entries \ {ctx.hello.sni} |-> entries[x]]
    ELSE [entries EXCEPT ![ctx.hello.sni].refCount = @ - 1]

\* ------------------------------------------------------------- history
RECURSIVE SumOver(_, _)
SumOver(f, S) ==
  IF S = {} THEN 0
  ELSE LET x == CHOOSE y \in S : TRUE IN f[x] + SumOver(f, S \ {x})

NoPicks == [b \in {} |-> 0]

\* one more selection of backend b by router instance r
Picked(p, r, b) ==
  [p EXCEPT ![r] = IF b \in DOMAIN @
                     THEN [@ EXCEPT ![b] = @ + 1]
                     ELSE [x \in DOMAIN @ \cup {b} |-> IF x = b THEN 1 ELSE @[x]]]

Routers == DOMAIN Routes \cup {"simple-router"}

BackendsOf(r) == IF r = "simple-router" THEN StaticBackends ELSE Routes[r]

CounterOf(r) == IF r = "simple-router" THEN staticCounter ELSE routeCounter[r]

\* selections made so far in this run by the routers of all chain instances
Selections ==
  SumOver([r \in Routers |-> SumOver(picks[r], DOMAIN picks[r])], Routers)

\* ------------------------------------------------------------- sessions
\* a Session as Forwarder.OnConnect builds it; idle says that LastActivity
\* is session_timeout or more ago; closes and od count the calls of
\* BackendConn.Close and of Forwarder.OnDisconnect for it
NewSession(id, backend) ==
  [alloc |-> TRUE, id |-> id, backend |-> backend, closed |-> FALSE,
   idle |-> FALSE, closes |-> 0, od |-> 0, pump |-> "none"]

\* a slot that holds no Session
FreeSlot == [NewSession(0, "") EXCEPT !.alloc = FALSE]

Slots == 1..MaxSessions
Sessions == {s \in Slots : sess[s].alloc}
HasFreeSlot == \E s \in Slots : ~sess[s].alloc
NextSlot == CHOOSE s \in Slots : ~sess[s].alloc /\ \A u \in Slots : u < s => sess[u].alloc

\* Session.IsClosed
IsClosed(s) == sess[s].closed

\* Session.Touch: LastActivity := now
Touch(ss, s) == [ss EXCEPT ![s].idle = FALSE]

\* session table: len, lookup by session
TableLen == Cardinality({c \in Clients : table[c] # NoSession})
InTable(s) == \E c \in Clients : table[c] = s

\* ------------------------------------------------------------ datagrams
\* A datagram is its byte sequence. The high bit of byte 1 tells the header
\* form; a long header carries the sender's connection ID (SCID) in byte 2,
\* a short header the destination connection ID (DCID); the last byte is
\* the payload. Connection IDs are one byte here.
CIDs == {17, 18}
LongHeader(scid, p) == <<192, scid, p>>
ShortHeader(dcid, p) == <<64, dcid, p>>
IsLong(d) == d[1] >= 128

\* a pooled buffer: BufLen bytes, holding whatever its last user left in it
Residues == {[i \in 1..BufLen |-> 18]}
NoBuffer == <<>>

\* conn.Read(*buf): the datagram lands at the front of the buffer, n = its length
ReadInto(buf, d) == d \o SubSeq(buf, Len(d) + 1, Len(buf))

\* (*buf)[:n]; SliceAll is the whole buffer, residue and all
SliceAll(buf, n) == buf

Slice(buf, n) == SubSeq(buf, 1, n)

\* pump of a session: position in backendToClient, the buffer held, n
NoPump == [pc |-> "none", buf |-> NoBuffer, n |-> 0]

FlowInitState ==
  /\ pump = [s \in Slots |-> NoPump]
  /\ bufs = [s \in Slots |-> [got |-> 0, put |-> 0]]
  /\ backendQ = [s \in Slots |-> <<>>]
  /\ readLog = [s \in Slots |-> <<>>]
  /\ toClient = [s \in Slots |-> <<>>]
  /\ toBackend = [s \in Slots |-> <<>>]
  /\ clientLog = [s \in Slots |-> <<>>]
  /\ cids = [x \in CIDs |-> NoSession]
  /\ learned = [s \in Slots |-> {}]

\* ------------------------------------------------------------- initial state
\* no chain instance
NoChain == [gen |-> -1, handlers |-> <<>>]

NoResult == Result("", NoError)
IdleListen == [pc |-> "recv", ctx |-> NoContext, idx |-> 0, s |-> NoSession,
               result |-> NoResult]
IdleCloser == [pc |-> "idle", s |-> NoSession]
Closers == {"listen", "sweeper", "shutdown"}

\* the address the listen socket is bound to, and another one
ListenAddr == ":5520"
ListenAddrs == {ListenAddr, ":5521"}

\* no reload requested yet
NoReload == [requests |-> 0, valid |-> TRUE, listen |-> ListenAddr,
             error |-> NoError, bound |-> ListenAddr]

\* no router built yet; a task that is not in a call
NoHandler == [kind |-> "none", ok |-> FALSE, routes |-> <<>>, counters |-> <<>>,
              index |-> 0, wrapped |-> FALSE]
Tasks == 1..MaxTasks
IdleCaller == [pc |-> "idle", sni |-> "", value |-> 0, backend |-> "",
               result |-> NoResult]

InitState ==
  /\ routeCounter = [r \in DOMAIN Routes |-> 0]
  /\ staticCounter = 0
  /\ sessionCounter = 0
  /\ sess = [s \in Slots |-> FreeSlot]
  /\ table = [c \in Clients |-> NoSession]
  /\ listen = IdleListen
  /\ closer = [t \in Closers |-> IdleCloser]
  /\ shutdown = FALSE
  /\ walk = <<>>
  /\ picks = [r \in Routers |-> NoPicks]
  /\ badWrites = {}
  /\ FlowInitState
  /\ listenClosed = FALSE
  /\ atSignal = {}
  /\ admitted = [s \in Slots |-> NoChain]
  /\ dispatch = NoChain
  /\ reloads = 0
  /\ reloaded = NoReload
  /\ backendEntries = NoEntries
  /\ conns = [c \in Contexts |-> [ctx |-> NoContext, state |-> "new"]]
  /\ built = NoHandler
  /\ callers = [t \in Tasks |-> IdleCaller]

Init ==
  /\ chain \in Chains
  /\ limit \in 1..MaxLimit
  /\ InitState

\* ------------------------------------------------------ the handler chain
Invoked(h, r) == [h |-> h, action |-> r.action, error |-> r.error]

\* Chain.OnConnect after one handler returned r with the context now ctx:
\* Continue advances to the next handler, Handled and Drop end the walk
\* (ChainAdvancePastDrop is a walk that Drop does not end)
ChainAdvancePastDrop(r, ctx) ==
  IF r.action \in {"Continue", "Drop"} /\ listen.idx < Len(chain)
    THEN [listen EXCEPT !.ctx = ctx, !.idx = @ + 1]
    ELSE [listen EXCEPT !.ctx = ctx, !.pc = "done", !.result = r]

ChainAdvance(r, ctx) ==
  IF r.action = "Continue" /\ listen.idx < Len(chain)
    THEN [listen EXCEPT !.ctx = ctx, !.idx = @ + 1]
    ELSE [listen EXCEPT !.ctx = ctx, !.pc = "done", !.result = r]

AtHandler(h) == listen.pc = "chain" /\ chain[listen.idx] = h

ChainRateLimit ==
  /\ AtHandler("ratelimit-global")
  /\ LET r == RateLimitOnConnect(listen.ctx, limit)
     IN /\ listen' = ChainAdvance(r, listen.ctx)
        /\ walk' = Append(walk, Invoked("ratelimit-global", r))
  /\ UNCHANGED <<auxVars, flowVars, chain, limit, routeCounter, staticCounter, sessionCounter,
                 sess, table, closer, shutdown, picks, badWrites>>

ChainDynamic ==
  /\ AtHandler("sni-router")
  /\ LET r == DynamicOnConnect(listen.ctx, routeCounter)
     IN /\ listen' = ChainAdvance(r.result, [listen.ctx EXCEPT !.backend = r.backend])
        /\ routeCounter' = r.counters
        /\ walk' = Append(walk, Invoked("sni-router", r.result))
        /\ picks' = IF r.result.action = "Continue"
                      THEN Picked(picks, listen.ctx.hello.sni, r.backend) ELSE picks
  /\ UNCHANGED <<auxVars, flowVars, chain, limit, staticCounter, sessionCounter, sess, table,
                 closer, shutdown, badWrites>>

ChainStatic ==
  /\ AtHandler("simple-router")
  /\ LET r == StaticOnConnect(listen.ctx, staticCounter)
     IN /\ listen' = ChainAdvance(r.result, [listen.ctx EXCEPT !.backend = r.backend])
        /\ staticCounter' = r.counter
        /\ walk' = Append(walk, Invoked("simple-router", r.result))
        /\ picks' = Picked(picks, "simple-router", r.backend)
  /\ UNCHANGED <<auxVars, flowVars, chain, limit, routeCounter, sessionCounter, sess, table,
                 closer, shutdown, badWrites>>

\* ForwarderHandler.OnConnect. outcome is what the network does: the address
\* does not resolve, the dial fails, the write of the initial packet fails,
\* or all succeed.
ForwardOutcomes == {"resolve_err", "dial_err", "write_err", "ok"}

ForwarderOnConnect(ctx, outcome) ==
  IF ctx.backend = ""
    THEN [result |-> Result("Drop", "no backend address"), ctx |-> ctx,
          sess |-> sess, sessionCounter |-> sessionCounter]
  ELSE IF outcome \in {"resolve_err", "dial_err"}
    THEN [result |-> Result("Drop", outcome), ctx |-> ctx,
          sess |-> sess, sessionCounter |-> sessionCounter]
  ELSE LET id == sessionCounter + 1
           new == NewSession(id, ctx.backend)
           attached == [ctx EXCEPT !.session = NextSlot]
       IN IF outcome = "write_err"
            THEN \* backendConn.Close(); return Drop: closed stays false
                 [result |-> Result("Drop", outcome), ctx |-> attached,
                  sess |-> [sess EXCEPT ![NextSlot] = [new EXCEPT !.closes = 1]],
                  sessionCounter |-> id]
            ELSE \* go h.backendToClient(ctx, session)
                 [result |-> Result("Handled", NoError), ctx |-> attached,
                  sess |-> [sess EXCEPT ![NextSlot] = [new EXCEPT !.pump = "running"]],
                  sessionCounter |-> id]

ChainForwarder ==
  /\ AtHandler("forwarder")
  /\ \E outcome \in ForwardOutcomes :
       LET r == ForwarderOnConnect(listen.ctx, outcome)
       IN /\ listen' = ChainAdvance(r.result, r.ctx)
          /\ sess' = r.sess
          /\ sessionCounter' = r.sessionCounter
          /\ walk' = Append(walk, Invoked("forwarder", r.result))
  /\ UNCHANGED <<auxVars, flowVars, chain, limit, routeCounter, staticCounter, table, closer,
                 shutdown, picks, badWrites>>

\* ------------------------------------------------------- the listen task
\* A chain instance: the handler list of one (re)load of the configuration.
\* The listen task takes the current instance when it starts on a datagram
\* without session, and the instance the session was admitted under for the
\* datagrams of a session; DispatchNewest is a listen task that sends every
\* datagram through the newest instance.
CurrentChain == [gen |-> reloads, handlers |-> chain]

DispatchNewest(s) == CurrentChain

DispatchChain(s) == admitted[s]

\* the listen task is through with its datagram when it is back at the read
Dispatched(via) == IF listen'.pc = "recv" THEN NoChain ELSE via

\* graceful shutdown, first step: on receipt of the signal the listen task
\* stops accepting new connections. A listen task that never looks at the
\* signal stands before it.
AcceptingAlways == TRUE

Accepting == ~shutdown

\* main receive loop, step 4: a first-of-connection Initial from a client
\* with no session; the context gets _session_count = table size
ListenConnect ==
  \E c \in Clients, sni \in SNIs \cup {""} :
    /\ listen.pc = "recv"
    /\ ~listenClosed
    /\ table[c] = NoSession
    /\ Accepting
    /\ HasFreeSlot
    /\ Selections < MaxConns
    /\ listen' = [IdleListen EXCEPT !.pc = "chain",
                                    !.ctx = NewContext(c, Hello(sni), TableLen),
                                    !.idx = 1]
    /\ walk' = <<>>
    /\ UNCHANGED <<downVars, termVars, callVars, admitted, reloads, reloaded, flowVars, chain, limit, routeCounter, staticCounter, sessionCounter,
                   sess, table, closer, shutdown, picks, badWrites>>
    /\ dispatch' = Dispatched(CurrentChain)

\* after shutdown a datagram that would create a session is dropped
ListenRefuse ==
  /\ listen.pc = "recv"
  /\ ~listenClosed
  /\ ~Accepting
  /\ \E c \in Clients : table[c] = NoSession
  /\ UNCHANGED vars

\* the walk returned: Handled leaves the new session in the table, Drop
\* aborts the connection
ListenFinish ==
  /\ listen.pc = "done"
  /\ table' = IF listen.result.action = "Handled"
                THEN [table EXCEPT ![listen.ctx.client] = listen.ctx.session]
                ELSE table
  /\ listen' = IdleListen
  /\ walk' = <<>>
  /\ UNCHANGED <<downVars, termVars, callVars, reloads, reloaded, flowVars, chain, limit, routeCounter, staticCounter, sessionCounter,
                 sess, closer, shutdown, picks, badWrites>>
  /\ admitted' = IF listen.result.action = "Handled"
                   THEN [admitted EXCEPT ![listen.ctx.session] = dispatch]
                   ELSE admitted
  /\ dispatch' = Dispatched(dispatch)

\* ------------------------------------------------------- closing a session
\* ForwarderHandler.OnDisconnect: ctx.Session.Close() is the CAS on the
\* closed flag; only its winner goes on to BackendConn.Close()
\* Session.Close: TRUE for the one caller that finds the flag clear
SessionClose(s) == ~sess[s].closed

\* OnDisconnect on session s: the closed flag after it, and whether this
\* call goes on to BackendConn.Close(). Two deviating handlers stand before
\* it: one that closes the socket on every call, and one that tests
\* IsClosed() instead of Close() and so never sets the flag.
ForwarderOnDisconnectNoCAS(s) == [closed |-> TRUE, closeSocket |-> TRUE]

ForwarderOnDisconnectNoMark(s) ==
  [closed |-> sess[s].closed, closeSocket |-> ~sess[s].closed]

\* a third one wins the CAS and leaves the socket open
ForwarderOnDisconnectNoClose(s) == [closed |-> TRUE, closeSocket |-> FALSE]

ForwarderOnDisconnect(s) == [closed |-> TRUE, closeSocket |-> SessionClose(s)]

\* a remove that leaves the table as it is stands before the real one
RemovedNothing(s) == table

\* session table remove(session): every key of the session goes; idempotent
Removed(s) == [c \in Clients |-> IF table[c] = s THEN NoSession ELSE table[c]]

\* task t closes session s: it calls OnDisconnect, whose first step is the
\* CAS. The winner is left in front of BackendConn.Close(); for the loser
\* OnDisconnect returns and t removes the session from the table.
Disconnect(t, s) ==
  LET r == ForwarderOnDisconnect(s)
  IN /\ sess' = [sess EXCEPT ![s].closed = r.closed, ![s].od = @ + 1]
     /\ IF r.closeSocket
          THEN /\ closer' = [closer EXCEPT ![t] = [pc |-> "close", s |-> s]]
               /\ table' = table
          ELSE /\ closer' = [closer EXCEPT ![t] = IdleCloser]
               /\ table' = Removed(s)

\* the rest of OnDisconnect for the CAS winner, BackendConn.Close(), and the
\* removal of the session from the table
OnDisconnectClose(t) ==
  /\ closer[t].pc = "close"
  /\ sess' = [sess EXCEPT ![closer[t].s].closes = @ + 1]
  /\ closer' = [closer EXCEPT ![t] = IdleCloser]
  /\ table' = Removed(closer[t].s)
  /\ listen' = IF t = "listen" THEN IdleListen ELSE listen
  /\ UNCHANGED <<downVars, termVars, callVars, admitted, reloads, reloaded, flowVars, chain, limit, routeCounter, staticCounter, sessionCounter,
                 shutdown, walk, picks, badWrites>>
  /\ dispatch' = Dispatched(dispatch)

\* ForwarderHandler.OnPacket as one call. ok is what the network does with
\* BackendConn.Write; a write on a closed socket fails. written is what the
\* call puts on the backend socket. ForwarderOnPacketNoClosedCheck is the
\* handler without its IsClosed test, ForwarderOnPacketRetry one that writes
\* a second time after a failed write.
Directions == {"Inbound", "Outbound"}

ForwarderOnPacketNoClosedCheck(s, packet, dir, ok) ==
  IF s = NoSession
    THEN [result |-> Result("Drop", "no session"), sess |-> sess, written |-> <<>>,
          attempts |-> 0]
  ELSE IF dir = "Inbound"
    THEN IF ok /\ sess[s].closes = 0
           THEN [result |-> Result("Handled", NoError), sess |-> Touch(sess, s),
                 written |-> <<packet>>, attempts |-> 1]
           ELSE [result |-> Result("Drop", "write"), sess |-> Touch(sess, s),
                 written |-> <<>>, attempts |-> 1]
  ELSE [result |-> Result("Handled", NoError), sess |-> Touch(sess, s),
        written |-> <<>>, attempts |-> 0]

ForwarderOnPacketRetry(s, packet, dir, ok) ==
  IF s = NoSession
    THEN [result |-> Result("Drop", "no session"), sess |-> sess, written |-> <<>>,
          attempts |-> 0]
  ELSE IF IsClosed(s)
    THEN [result |-> Result("Drop", NoError), sess |-> sess, written |-> <<>>,
          attempts |-> 0]
  ELSE IF dir = "Inbound"
    THEN IF ok /\ sess[s].closes = 0
           THEN [result |-> Result("Handled", NoError), sess |-> Touch(sess, s),
                 written |-> <<packet>>, attempts |-> 1]
           ELSE [result |-> Result("Handled", NoError), sess |-> Touch(sess, s),
                 written |-> IF sess[s].closes = 0 THEN <<packet>> ELSE <<>>,
                 attempts |-> 2]
  ELSE [result |-> Result("Handled", NoError), sess |-> Touch(sess, s),
        written |-> <<>>, attempts |-> 0]

ForwarderOnPacket(s, packet, dir, ok) ==
  IF s = NoSession
    THEN [result |-> Result("Drop", "no session"), sess |-> sess, written |-> <<>>,
          attempts |-> 0]
  ELSE IF IsClosed(s)
    THEN [result |-> Result("Drop", NoError), sess |-> sess, written |-> <<>>,
          attempts |-> 0]
  ELSE IF dir = "Inbound"
    THEN IF ok /\ sess[s].closes = 0
           THEN [result |-> Result("Handled", NoError), sess |-> Touch(sess, s),
                 written |-> <<packet>>, attempts |-> 1]
           ELSE [result |-> Result("Drop", "write"), sess |-> Touch(sess, s),
                 written |-> <<>>, attempts |-> 1]
  ELSE [result |-> Result("Handled", NoError), sess |-> Touch(sess, s),
        written |-> <<>>, attempts |-> 0]

\* ForwarderHandler.OnPacket up to the write: nil session, IsClosed
ForwarderOnPacketCheck(s) ==
  IF s = NoSession THEN Result("Drop", "no session")
  ELSE IF IsClosed(s) THEN Result("Drop", NoError)
  ELSE Result("Continue", NoError)

\* main receive loop, step 2: a datagram of a client with a session goes
\* through the chain as Inbound. OnPacket drops it when the session is
\* closed, and the Drop makes the listen task close the session; otherwise
\* OnPacket touches the session and is left in front of BackendConn.Write.
ListenPacket ==
  \E c \in Clients :
    /\ listen.pc = "recv"
    /\ ~listenClosed
    /\ table[c] # NoSession
    /\ LET s == table[c]
           r == ForwarderOnPacketCheck(s)
       IN IF r.action = "Drop"
            THEN /\ Disconnect("listen", s)
                 /\ listen' = IF closer'["listen"].pc = "close"
                                THEN [IdleListen EXCEPT !.pc = "closing", !.s = s]
                                ELSE IdleListen
            ELSE /\ listen' = [IdleListen EXCEPT !.pc = "write", !.s = s]
                 /\ sess' = Touch(sess, s)
                 /\ UNCHANGED <<closer, table>>
    /\ UNCHANGED <<downVars, termVars, callVars, admitted, reloads, reloaded, flowVars, chain, limit, routeCounter, staticCounter, sessionCounter,
                   shutdown, walk, picks, badWrites>>
    /\ dispatch' = Dispatched(DispatchChain(table[c]))

\* ForwarderHandler.OnPacket, Inbound: BackendConn.Write(packet). A write on
\* a closed socket fails, one on an open socket may fail; a failed write
\* returns Drop and the listen task closes the session.
ListenWrite ==
  /\ listen.pc = "write"
  /\ \E ok \in BOOLEAN :
       /\ ok => sess[listen.s].closes = 0
       /\ IF ok
            THEN /\ listen' = IdleListen
                 /\ UNCHANGED <<sess, closer, table>>
            ELSE /\ Disconnect("listen", listen.s)
                 /\ listen' = IF closer'["listen"].pc = "close"
                                THEN [listen EXCEPT !.pc = "closing"]
                                ELSE IdleListen
  /\ badWrites' = IF IsClosed(listen.s) THEN badWrites \cup {listen.s} ELSE badWrites
  /\ UNCHANGED <<downVars, termVars, callVars, admitted, reloads, reloaded, flowVars, chain, limit, routeCounter, staticCounter, sessionCounter,
                 shutdown, walk, picks>>
  /\ dispatch' = Dispatched(dispatch)

\* idle sweeper: a session of the table with now - last_activity >= timeout
\* is closed; SweepSession is the visit of one session of the snapshot
SweepSession(s) ==
  /\ closer["sweeper"].pc = "idle"
  /\ s \in Sessions
  /\ InTable(s)
  /\ sess[s].idle
  /\ Disconnect("sweeper", s)
  /\ UNCHANGED <<auxVars, flowVars, chain, limit, routeCounter, staticCounter, sessionCounter,
                 listen, shutdown, walk, picks, badWrites>>

Sweep == \E s \in Slots : SweepSession(s)

\* the shutdown signal arrives; atSignal remembers which sessions the table
\* held at that moment
ShutdownSignal ==
  /\ ~shutdown
  /\ shutdown' = TRUE
  /\ atSignal' = {sess[s].id : s \in {u \in Sessions : InTable(u)}}
  /\ UNCHANGED <<listenClosed, reloadVars, termVars, callVars, flowVars, chain, limit, routeCounter, staticCounter, sessionCounter,
                 sess, table, listen, closer, walk, picks, badWrites>>

\* graceful shutdown: every session of the table is closed
ShutdownClose ==
  /\ shutdown
  /\ closer["shutdown"].pc = "idle"
  /\ \E s \in Sessions :
       /\ InTable(s)
       /\ Disconnect("shutdown", s)
  /\ UNCHANGED <<auxVars, flowVars, chain, limit, routeCounter, staticCounter, sessionCounter,
                 listen, shutdown, walk, picks, badWrites>>

\* graceful shutdown, last step: every session of the table was transitioned
\* to Closing and removed; the wait for the pumps ends with their exit or
\* with the deadline, then the listen socket is closed
ShutdownFinish ==
  /\ shutdown
  /\ ~listenClosed
  /\ closer["shutdown"].pc = "idle"
  /\ TableLen = 0
  /\ listenClosed' = TRUE
  /\ UNCHANGED <<atSignal, reloadVars, termVars, callVars, flowVars, chain, limit, routeCounter, staticCounter,
                 sessionCounter, sess, table, listen, closer, shutdown, walk,
                 picks, badWrites>>

\* time passes: an open session has had no activity for session_timeout
Expire(s) ==
  /\ sess[s].alloc /\ ~sess[s].closed /\ sess[s].closes = 0
  /\ ~sess[s].idle
  /\ sess' = [sess EXCEPT ![s].idle = TRUE]
  /\ UNCHANGED <<auxVars, flowVars, chain, limit, routeCounter, staticCounter, sessionCounter,
                 table, listen, closer, shutdown, walk, picks, badWrites>>

\* ------------------------------------------- the backend-to-client pump
pumpFrame == <<auxVars, flowVars, chain, limit, routeCounter, staticCounter, sessionCounter,
               table, listen, closer, shutdown, walk, picks, badWrites>>

\* one iteration of backendToClient that forwards a datagram: the session is
\* not closed before and after the read, Touch, write to the client
PumpForward(s) ==
  /\ sess[s].pump = "running"
  /\ ~listenClosed
  /\ ~IsClosed(s)
  /\ sess[s].closes = 0
  /\ sess' = Touch(sess, s)
  /\ UNCHANGED pumpFrame

\* a pump that returns only while the socket is open: blocked in the read, it
\* does not notice the close
PumpExitWhileOpen(s) ==
  /\ sess[s].pump = "running"
  /\ sess[s].closes = 0
  /\ sess' = [sess EXCEPT ![s].pump = "exited"]
  /\ UNCHANGED pumpFrame

\* backendToClient returns: the session is closed, the read fails (socket
\* closed, read deadline, network) or the write to the client fails
PumpExit(s) ==
  /\ sess[s].pump = "running"
  /\ sess' = [sess EXCEPT ![s].pump = "exited"]
  /\ UNCHANGED pumpFrame

\* ------------------------------------------------------ end of a session
\* no task holds the session any more: it is in no table entry, no context in
\* flight and no closing task refers to it
Ended(s) ==
  /\ sess[s].alloc
  /\ ~InTable(s)
  /\ listen.s # s
  /\ listen.ctx.session # s
  /\ \A t \in Closers : closer[t].s # s

\* the memory of an ended session whose pump has returned is reclaimed
Reap(s) ==
  /\ Ended(s)
  /\ sess[s].pump # "running"
  /\ sess' = [sess EXCEPT ![s] = FreeSlot]
  /\ badWrites' = badWrites \ {s}
  /\ UNCHANGED <<downVars, termVars, callVars, dispatch, reloads, reloaded, flowVars, chain, limit, routeCounter, staticCounter, sessionCounter,
                 table, listen, closer, shutdown, walk, picks>>
  /\ admitted' = [admitted EXCEPT ![s] = NoChain]

Next ==
  \/ ListenConnect
  \/ ListenRefuse
  \/ ChainRateLimit
  \/ ChainDynamic
  \/ ChainStatic
  \/ ChainForwarder
  \/ ListenFinish
  \/ ListenPacket
  \/ ListenWrite
  \/ \E t \in Closers : OnDisconnectClose(t)
  \/ Sweep
  \/ ShutdownSignal
  \/ ShutdownClose
  \/ ShutdownFinish
  \/ \E s \in Sessions : Expire(s)
  \/ \E s \in Sessions : PumpForward(s)
  \/ \E s \in Sessions : PumpExit(s)
  \/ \E s \in Sessions : Reap(s)

Spec == Init /\ [][Next]_vars

\* What the scheduling guarantees: the sweeper keeps running and visits every
\* session of its snapshot; the shutdown task goes on until the table is
\* empty; a task that won the CAS of Close() goes on to close the socket and
\* to remove the session; a read on a closed backend socket returns.
Fairness ==
  /\ \A s \in Slots : WF_vars(SweepSession(s))
  /\ WF_vars(ShutdownClose)
  /\ WF_vars(ShutdownFinish)
  /\ \A t \in Closers : WF_vars(OnDisconnectClose(t))
  /\ \A s \in Slots : WF_vars(PumpExit(s) /\ sess[s].closes > 0)

LiveSpec == Spec /\ Fairness

\* ------------------------------------------------------------- hot-reload
\* The configuration is reloaded on the hangup signal. A configuration that
\* fails validation or names another listen address is rejected and nothing
\* changes; otherwise a new chain instance (new handlers from their
\* constructors: the round-robin counters and the forwarder's
\* sessionCounter at zero) and a new session_timeout replace the old ones
\* in one step. The listen task takes the new instance with its next datagram, so
\* the step lies between two datagrams. A raised timeout makes the sessions
\* that were due no longer due; after a lowered one Expire may fire. picks
\* goes on as the history of the run.
ReloadConfigs == [valid : BOOLEAN, listen : ListenAddrs, chain : Chains,
                  limit : 1..MaxLimit, raised : BOOLEAN]

\* a reload that does not compare the listen address
ReloadErrorListenIgnored(cfg) ==
  IF ~cfg.valid THEN "config" ELSE NoError

\* the re-read configuration is validated; a listen value other than the
\* bound address is an error of the reload
ReloadError(cfg) ==
  IF ~cfg.valid THEN "config"
  ELSE IF cfg.listen # reloaded.bound THEN "listen"
  ELSE NoError

Reload ==
  /\ listen.pc = "recv"
  /\ ~shutdown
  /\ reloads < MaxReloads
  /\ reloaded.requests < MaxReloads
  /\ \E cfg \in ReloadConfigs :
       /\ reloaded' = [reloaded EXCEPT !.requests = @ + 1, !.valid = cfg.valid,
                                       !.listen = cfg.listen,
                                       !.error = ReloadError(cfg)]
       /\ IF ReloadError(cfg) # NoError
            THEN UNCHANGED <<reloads, chain, limit, routeCounter, staticCounter,
                             sessionCounter, sess>>
            ELSE /\ reloads' = reloads + 1
                 /\ chain' = cfg.chain
                 /\ limit' = cfg.limit
                 /\ routeCounter' = [r \in DOMAIN Routes |-> 0]
                 /\ staticCounter' = 0
                 /\ sessionCounter' = 0
                 /\ sess' = [s \in Slots |-> IF cfg.raised /\ sess[s].alloc
                                               THEN [sess[s] EXCEPT !.idle = FALSE]
                                               ELSE sess[s]]
  /\ UNCHANGED <<downVars, admitted, dispatch, termVars, callVars, flowVars, table,
                 listen, closer, shutdown, walk, picks, badWrites>>

ReloadNext == Next \/ Reload

ReloadSpec == Init /\ [][ReloadNext]_vars

\* ---------------------------------------------------------- the data path
\* FlowSpec follows single datagrams: the listen task handles one datagram
\* per step, the pump of each session runs backendToClient statement by
\* statement, and a session is closed and removed in one step.

\* datagrams the backends have sent / the forwarder has accepted after the
\* Initial, over all sessions
Emitted == SumOver([s \in Slots |-> Len(readLog[s]) + Len(backendQ[s])], Slots)
Accepted == SumOver([s \in Slots |-> IF clientLog[s] = <<>> THEN 0
                                     ELSE Len(clientLog[s]) - 1], Slots)

\* session table remove(session) on the secondary index
RemovedCids(s) == [x \in CIDs |-> IF cids[x] = s THEN NoSession ELSE cids[x]]

\* main receive loop, steps 2 and 3: the session a datagram d from address a
\* belongs to: by client address first, then (short header) by DCID
Route(a, d) ==
  IF table[a] # NoSession THEN table[a]
  ELSE IF ~IsLong(d) THEN cids[d[2]]
  ELSE NoSession

\* OnDisconnect and remove(session) for session s, the sessions being ss
FlowCloseFrom(ss, s) ==
  LET r == ForwarderOnDisconnect(s)
  IN /\ sess' = [ss EXCEPT ![s].closed = r.closed, ![s].od = @ + 1,
                           ![s].closes = @ + (IF r.closeSocket THEN 1 ELSE 0)]
     /\ table' = Removed(s)
     /\ cids' = RemovedCids(s)

FlowCloseSession(s) == FlowCloseFrom(sess, s)

FlowChain == <<"simple-router", "forwarder">>

FlowInit ==
  /\ chain = FlowChain
  /\ limit = MaxLimit
  /\ InitState

\* main receive loop, step 4: an Initial from an address without session;
\* simple-router and forwarder run, the session of a Handled walk is inserted
FlowConnect ==
  \E a \in Clients, res \in Residues, outcome \in ForwardOutcomes :
    LET d == LongHeader(0, 1)
        packet == Slice(ReadInto(res, d), Len(d))
        ctx == NewContext(a, Hello("a.com"), TableLen)
        r1 == StaticOnConnect(ctx, staticCounter)
        r2 == ForwarderOnConnect([ctx EXCEPT !.backend = r1.backend], outcome)
        s == r2.ctx.session
    IN /\ table[a] = NoSession
       /\ HasFreeSlot
       /\ staticCounter < MaxConns
       /\ staticCounter' = r1.counter
       /\ picks' = Picked(picks, "simple-router", r1.backend)
       /\ sess' = r2.sess
       /\ sessionCounter' = r2.sessionCounter
       /\ IF r2.result.action = "Handled"
            THEN /\ table' = [table EXCEPT ![a] = s]
                 /\ toBackend' = [toBackend EXCEPT ![s] = <<packet>>]
                 /\ clientLog' = [clientLog EXCEPT ![s] = <<d>>]
                 /\ pump' = [pump EXCEPT ![s] = [NoPump EXCEPT !.pc = "check"]]
            ELSE UNCHANGED <<table, toBackend, clientLog, pump>>
       /\ UNCHANGED <<auxVars, chain, limit, routeCounter, listen, closer, shutdown, walk,
                      badWrites, bufs, backendQ, readLog, toClient, cids, learned>>

\* main receive loop, steps 2 and 3, with Forwarder.OnPacket(Inbound): a
\* datagram that Route gives to a session is written to its backend; a Drop
\* (session closed, write failed) makes the listen task close the session
\* (on_disconnect, then remove).
\* A session found by DCID also gets the sender's address as a key.
FlowInbound ==
  \E a \in Clients, x \in CIDs, res \in Residues, ok \in BOOLEAN :
    LET s == Route(a, ShortHeader(x, 0))
    IN /\ s # NoSession
       /\ Accepted < MaxPackets
       /\ LET p == Len(clientLog[s]) + 1
              d == ShortHeader(x, p)
              packet == Slice(ReadInto(res, d), Len(d))
              r == ForwarderOnPacket(s, packet, "Inbound", ok)
          IN IF r.result.action = "Drop"
               THEN /\ FlowCloseFrom(r.sess, s)
                    /\ UNCHANGED <<toBackend, clientLog>>
               ELSE /\ sess' = r.sess
                    /\ table' = [table EXCEPT ![a] = s]
                    /\ toBackend' = [toBackend EXCEPT ![s] = @ \o r.written]
                    /\ clientLog' = [clientLog EXCEPT ![s] = Append(@, d)]
                    /\ cids' = cids
       /\ UNCHANGED <<auxVars, chain, limit, routeCounter, staticCounter, sessionCounter,
                      listen, closer, shutdown, walk, picks, badWrites, pump,
                      bufs, backendQ, readLog, toClient, learned>>

\* idle sweeper or shutdown closes a session of the table
FlowSweep(s) ==
  /\ InTable(s)
  /\ FlowCloseSession(s)
  /\ UNCHANGED <<auxVars, chain, limit, routeCounter, staticCounter, sessionCounter,
                 listen, closer, shutdown, walk, picks, badWrites, pump, bufs,
                 backendQ, readLog, toClient, toBackend, clientLog, learned>>

\* the backend sends a datagram to the session's socket
BackendEmit(s) ==
  \E x \in CIDs, long \in BOOLEAN :
    LET p == Len(readLog[s]) + Len(backendQ[s]) + 1
        d == IF long THEN LongHeader(x, p) ELSE ShortHeader(0, p)
    IN /\ pump[s].pc # "none"
       /\ sess[s].closes = 0
       /\ Emitted < MaxPackets
       /\ backendQ' = [backendQ EXCEPT ![s] = Append(@, d)]
       /\ UNCHANGED <<auxVars, chain, limit, routeCounter, staticCounter, sessionCounter,
                      sess, table, listen, closer, shutdown, walk, picks,
                      badWrites, pump, bufs, readLog, toClient, toBackend,
                      clientLog, cids, learned>>

\* backendToClient, statement by statement. GetBuffer / PutBuffer count the
\* calls; BufferLeaked is the read-error path without its PutBuffer
GetBuffer(b) == [b EXCEPT !.got = @ + 1]
PutBuffer(b) == [b EXCEPT !.put = @ + 1]

BufferLeaked(b) == b

OnReadError(b) == PutBuffer(b)

\* ProxyConn.WriteToUDP((*buf)[:n], ...): the bytes the client is sent;
\* ClientWriteFront puts them before what was sent earlier
ClientWriteFront(log, buf, n) == <<Slice(buf, n)>> \o log

ClientWrite(log, buf, n) == Append(log, Slice(buf, n))

\* NotifyServerPacket(packet): the proxy indexes the SCID of a long-header
\* packet to the session (last writer wins)
NotifyServerPacket(index, packet, s) ==
  IF IsLong(packet) THEN [index EXCEPT ![packet[2]] = s] ELSE index

flowFrame == <<auxVars, chain, limit, routeCounter, staticCounter, sessionCounter,
               table, listen, closer, shutdown, walk, picks, badWrites,
               toBackend, clientLog>>

PumpReturn(s) ==
  /\ pump' = [pump EXCEPT ![s] = [NoPump EXCEPT !.pc = "exited"]]
  /\ sess' = [sess EXCEPT ![s].pump = "exited"]

\* if session.IsClosed() { return }; buf := GetBuffer(); SetReadDeadline
PumpCheck(s) ==
  /\ pump[s].pc = "check"
  /\ IF IsClosed(s)
       THEN PumpReturn(s) /\ bufs' = bufs
       ELSE \E res \in Residues :
              /\ pump' = [pump EXCEPT ![s] = [pc |-> "read", buf |-> res, n |-> 0]]
              /\ bufs' = [bufs EXCEPT ![s] = GetBuffer(@)]
              /\ sess' = sess
  /\ UNCHANGED <<flowFrame, backendQ, readLog, toClient, cids, learned>>

\* n, err := BackendConn.Read(*buf): a datagram of the queue, or an error
\* (socket closed, read deadline, network), after which the pump returns
PumpRead(s) ==
  /\ pump[s].pc = "read"
  /\ \E err \in BOOLEAN :
       IF err
         THEN /\ PumpReturn(s)
              /\ bufs' = [bufs EXCEPT ![s] = OnReadError(@)]
              /\ UNCHANGED <<backendQ, readLog>>
         ELSE /\ sess[s].closes = 0
              /\ backendQ[s] # <<>>
              /\ LET d == Head(backendQ[s])
                 IN /\ pump' = [pump EXCEPT ![s] = [pc |-> "recheck",
                                                     buf |-> ReadInto(pump[s].buf, d),
                                                     n |-> Len(d)]]
                    /\ readLog' = [readLog EXCEPT ![s] = Append(@, d)]
              /\ backendQ' = [backendQ EXCEPT ![s] = Tail(@)]
              /\ UNCHANGED <<sess, bufs>>
  /\ UNCHANGED <<flowFrame, toClient, cids, learned>>

\* a pump that touches the session before it looks at the closed flag
PumpRecheckTouchFirst(s) ==
  /\ pump[s].pc = "recheck"
  /\ IF IsClosed(s)
       THEN /\ pump' = [pump EXCEPT ![s] = [NoPump EXCEPT !.pc = "exited"]]
            /\ sess' = [Touch(sess, s) EXCEPT ![s].pump = "exited"]
            /\ bufs' = [bufs EXCEPT ![s] = PutBuffer(@)]
       ELSE /\ pump' = [pump EXCEPT ![s].pc = "notify"]
            /\ sess' = Touch(sess, s)
            /\ bufs' = bufs
  /\ UNCHANGED <<flowFrame, backendQ, readLog, toClient, cids, learned>>

\* a pump that goes from the second IsClosed check straight to the write
PumpRecheckThenWrite(s) ==
  /\ pump[s].pc = "recheck"
  /\ IF IsClosed(s)
       THEN /\ PumpReturn(s)
            /\ bufs' = [bufs EXCEPT ![s] = PutBuffer(@)]
       ELSE /\ pump' = [pump EXCEPT ![s].pc = "write"]
            /\ sess' = Touch(sess, s)
            /\ bufs' = bufs
  /\ UNCHANGED <<flowFrame, backendQ, readLog, toClient, cids, learned>>

\* if session.IsClosed() { PutBuffer(buf); return }; session.Touch()
PumpRecheck(s) ==
  /\ pump[s].pc = "recheck"
  /\ IF IsClosed(s)
       THEN /\ PumpReturn(s)
            /\ bufs' = [bufs EXCEPT ![s] = PutBuffer(@)]
       ELSE /\ pump' = [pump EXCEPT ![s].pc = "notify"]
            /\ sess' = Touch(sess, s)
            /\ bufs' = bufs
  /\ UNCHANGED <<flowFrame, backendQ, readLog, toClient, cids, learned>>

\* ctx.NotifyServerPacket((*buf)[:n]); PumpNotifySkipped is the pump
\* without this call
PumpNotifySkipped(s) ==
  /\ pump[s].pc = "notify"
  /\ LET packet == Slice(pump[s].buf, pump[s].n)
     IN learned' = IF IsLong(packet)
                     THEN [learned EXCEPT ![s] = @ \cup {packet[2]}]
                     ELSE learned
  /\ pump' = [pump EXCEPT ![s].pc = "write"]
  /\ UNCHANGED <<flowFrame, sess, bufs, backendQ, readLog, toClient, cids>>

PumpNotify(s) ==
  /\ pump[s].pc = "notify"
  /\ LET packet == Slice(pump[s].buf, pump[s].n)
     IN /\ cids' = NotifyServerPacket(cids, packet, s)
        /\ learned' = IF IsLong(packet)
                        THEN [learned EXCEPT ![s] = @ \cup {packet[2]}]
                        ELSE learned
  /\ pump' = [pump EXCEPT ![s].pc = "write"]
  /\ UNCHANGED <<flowFrame, sess, bufs, backendQ, readLog, toClient>>

\* a pump that returns the buffer and still holds on to it afterwards
PumpWriteKeepsBuffer(s) ==
  /\ pump[s].pc = "write"
  /\ \E ok \in BOOLEAN :
       IF ok
         THEN /\ toClient' = [toClient EXCEPT
                                ![s] = ClientWrite(@, pump[s].buf, pump[s].n)]
              /\ pump' = [pump EXCEPT ![s].pc = "check"]
              /\ sess' = sess
         ELSE /\ PumpReturn(s)
              /\ toClient' = toClient
  /\ bufs' = [bufs EXCEPT ![s] = PutBuffer(@)]
  /\ UNCHANGED <<flowFrame, backendQ, readLog, cids, learned>>

\* ProxyConn.WriteToUDP; on error PutBuffer and return, else PutBuffer and
\* the next iteration
PumpWrite(s) ==
  /\ pump[s].pc = "write"
  /\ \E ok \in BOOLEAN :
       IF ok
         THEN /\ toClient' = [toClient EXCEPT
                                ![s] = ClientWrite(@, pump[s].buf, pump[s].n)]
              /\ pump' = [pump EXCEPT ![s] = [NoPump EXCEPT !.pc = "check"]]
              /\ sess' = sess
         ELSE /\ PumpReturn(s)
              /\ toClient' = toClient
  /\ bufs' = [bufs EXCEPT ![s] = PutBuffer(@)]
  /\ UNCHANGED <<flowFrame, backendQ, readLog, cids, learned>>

FlowNext ==
  \/ FlowConnect
  \/ FlowInbound
  \/ \E s \in Sessions : FlowSweep(s)
  \/ \E s \in Sessions : BackendEmit(s)
  \/ \E s \in Sessions : PumpCheck(s)
  \/ \E s \in Sessions : PumpRead(s)
  \/ \E s \in Sessions : PumpRecheck(s)
  \/ \E s \in Sessions : PumpNotify(s)
  \/ \E s \in Sessions : PumpWrite(s)

FlowSpec == FlowInit /\ [][FlowNext]_vars

\* the data path with time passing: a session may become due for the
\* sweeper at any moment, so that a Touch is visible
FlowTimedNext ==
  \/ FlowNext
  \/ \E s \in Sessions : Expire(s)

FlowTimedSpec == FlowInit /\ [][FlowTimedNext]_vars

\* ------------------------------------------- routers built from a config
\* a value of the JSON configuration: a string, or something else
Str(v) == [str |-> TRUE, s |-> v]
NotStr == [str |-> FALSE, s |-> ""]

RECURSIVE SeqsUpTo(_, _)
SeqsUpTo(S, n) ==
  IF n = 0 THEN {<<>>}
  ELSE LET shorter == SeqsUpTo(S, n - 1)
       IN shorter \cup {Append(q, x) : q \in {p \in shorter : Len(p) = n - 1}, x \in S}

\* what "routes" can hold for one SNI: a string, an array, anything else
RouteValues ==
  {[kind |-> "string", items |-> <<Str(v)>>] : v \in {"", "b1"}}
    \cup {[kind |-> "array", items |-> q] :
            q \in SeqsUpTo({Str("b1"), Str("b2"), NotStr}, MaxList)}
    \cup {[kind |-> "other", items |-> <<>>]}

ConfigSNIs == {"a.com", "b.com"}

\* raw configurations of the sni-router: JSON that does not parse, or a
\* (possibly empty or missing) routes object
DynamicConfigs ==
  {[json |-> "bad", routes |-> [x \in {} |-> 0]]}
    \cup {[json |-> "ok", routes |-> r] :
            r \in UNION {[D -> RouteValues] : D \in SUBSET ConfigSNIs}}

\* raw configurations of the simple-router, and QUIC_RELAY_BACKEND
StaticConfigs ==
  [json : {"ok", "bad"}, backend : {"", "s1"},
   backends : SeqsUpTo({"s1", "s2"}, MaxList), env : {"", "e1"}]

Strings(items) == [i \in 1..Len(items) |-> items[i].s]

\* the backends NewDynamicHandler makes of one value, and whether it returns
\* an error for it
RouteBackends(v) ==
  IF v.kind = "string" THEN Strings(v.items)
  ELSE IF v.kind = "array" THEN Strings(v.items)
  ELSE <<>>

RouteErrorAllowEmpty(v) ==
  \/ v.kind = "other"
  \/ v.kind = "array" /\ \E i \in 1..Len(v.items) : ~v.items[i].str

RouteError(v) ==
  \/ v.kind = "other"
  \/ v.kind = "array" /\ \E i \in 1..Len(v.items) : ~v.items[i].str
  \/ Len(RouteBackends(v)) = 0

Built(kind, routes) ==
  [kind |-> kind, ok |-> TRUE, routes |-> routes,
   counters |-> [r \in DOMAIN routes |-> 0], index |-> 0, wrapped |-> FALSE]

Failed(kind) == [NoHandler EXCEPT !.kind = kind]

\* NewDynamicHandler
NewDynamicHandler(cfg) ==
  IF cfg.json = "bad" THEN Failed("sni-router")
  ELSE IF DOMAIN cfg.routes = {} THEN Failed("sni-router")
  ELSE IF \E sni \in DOMAIN cfg.routes : RouteError(cfg.routes[sni])
    THEN Failed("sni-router")
  ELSE Built("sni-router", [sni \in DOMAIN cfg.routes |-> RouteBackends(cfg.routes[sni])])

\* NewStaticHandler
NewStaticHandler(cfg) ==
  IF cfg.json = "bad" THEN Failed("simple-router")
  ELSE IF Len(cfg.backends) > 0
    THEN Built("simple-router", [r \in {"simple-router"} |-> cfg.backends])
  ELSE IF cfg.backend # ""
    THEN Built("simple-router", [r \in {"simple-router"} |-> <<cfg.backend>>])
  ELSE IF cfg.env # ""
    THEN Built("simple-router", [r \in {"simple-router"} |-> <<cfg.env>>])
  ELSE Failed("simple-router")

buildFrame == <<chain, limit, routeCounter, staticCounter, sessionCounter, sess, table,
                listen, closer, shutdown, walk, picks, badWrites, flowVars,
                downVars, reloadVars, termVars, callers>>

BuildDynamic ==
  /\ built.kind = "none"
  /\ \E cfg \in DynamicConfigs : built' = NewDynamicHandler(cfg)
  /\ UNCHANGED buildFrame

BuildStatic ==
  /\ built.kind = "none"
  /\ \E cfg \in StaticConfigs : built' = NewStaticHandler(cfg)
  /\ UNCHANGED buildFrame

\* the selection of one OnConnect on the built router: route.next (sni-router)
\* or the two lines of StaticHandler.OnConnect (simple-router)
BuiltNextOf(r, counter) ==
  IF built.kind = "simple-router"
    THEN StaticNext(built.routes[r], counter)
    ELSE RouteNext(built.routes[r], counter)

BuiltNext ==
  /\ built.ok
  /\ \E r \in DOMAIN built.routes :
       LET n == BuiltNextOf(r, built.counters[r])
       IN built' = [built EXCEPT !.counters[r] = n.counter,
                                 !.index = n.index,
                                 !.wrapped = @ \/ n.counter = 0]
  /\ UNCHANGED buildFrame

BuildNext == BuildDynamic \/ BuildStatic \/ BuiltNext

BuildSpec == FlowInit /\ [][BuildNext]_vars

\* --------------------------- one sni-router called by several tasks at once
\* DynamicHandler.OnConnect reads the immutable routes map and shares only
\* route.counter, which it changes with one atomic Add. A task takes a
\* ClientHello (CallStart), runs OnConnect up to and including r.next()
\* (CallOnConnect), and returns (CallReturn); the tasks interleave freely.
callFrame == <<chain, limit, staticCounter, sessionCounter, sess, table, listen,
               closer, shutdown, walk, picks, badWrites, flowVars, downVars,
               reloadVars, termVars, built>>

CallStart(t) ==
  /\ callers[t].pc = "idle"
  /\ \E sni \in SNIs \cup {""} :
       callers' = [callers EXCEPT ![t] = [IdleCaller EXCEPT !.pc = "call", !.sni = sni]]
  /\ UNCHANGED <<callFrame, routeCounter>>

\* a router whose next() loads the counter and stores the sum in two steps
CallOnConnectLoadStore(t) ==
  LET sni == callers[t].sni
  IN /\ callers[t].pc \in {"call", "store"}
     /\ IF sni \notin DOMAIN Routes
          THEN /\ callers' = [callers EXCEPT
                                ![t].pc = "return",
                                ![t].result = DynamicOnConnect(
                                   NewContext("", Hello(sni), 0), routeCounter).result]
               /\ UNCHANGED routeCounter
          ELSE IF callers[t].pc = "call"
            THEN /\ callers' = [callers EXCEPT ![t].pc = "store",
                                               ![t].value = routeCounter[sni]]
                 /\ UNCHANGED routeCounter
            ELSE LET n == RouteNext(Routes[sni], callers[t].value)
                 IN /\ routeCounter' = [routeCounter EXCEPT ![sni] = n.counter]
                    /\ callers' = [callers EXCEPT
                                     ![t].pc = "return", ![t].value = n.counter,
                                     ![t].backend = n.backend,
                                     ![t].result = Result("Continue", NoError)]
     /\ UNCHANGED callFrame

CallOnConnect(t) ==
  LET sni == callers[t].sni
      r == DynamicOnConnect(NewContext("", Hello(sni), 0), routeCounter)
  IN /\ callers[t].pc = "call"
     /\ routeCounter' = r.counters
     /\ callers' = [callers EXCEPT
                      ![t].pc = "return",
                      ![t].value = IF r.result.action = "Continue"
                                     THEN r.counters[sni] ELSE 0,
                      ![t].backend = r.backend,
                      ![t].result = r.result]
     /\ UNCHANGED callFrame

CallReturn(t) ==
  /\ callers[t].pc = "return"
  /\ callers' = [callers EXCEPT ![t].pc = "done"]
  /\ UNCHANGED <<callFrame, routeCounter>>

CallNext ==
  \/ \E t \in Tasks : CallStart(t)
  \/ \E t \in Tasks : CallOnConnect(t)
  \/ \E t \in Tasks : CallReturn(t)

CallSpec == FlowInit /\ [][CallNext]_vars

\* ---------------------------------------------- handlers called directly
\* each call gets a fresh Context, as in the package's tests
UnitInit ==
  /\ chain \in Chains
  /\ limit \in 1..MaxCount
  /\ InitState

proxyVars == <<auxVars, flowVars, chain, sessionCounter, sess, table, closer, shutdown, badWrites>>

UnitRateLimit ==
  \E count \in 0..(MaxCount + 1) :
    LET ctx == NewContext("", NilHello, count)
        r == RateLimitOnConnect(ctx, limit)
    IN /\ listen' = [IdleListen EXCEPT !.ctx = ctx, !.result = r]
       /\ walk' = <<Invoked("ratelimit-global", r)>>
       /\ UNCHANGED <<limit, routeCounter, staticCounter, picks, proxyVars>>

UnitDynamic ==
  \E hello \in {NilHello} \cup {Hello(sni) : sni \in SNIs \cup {""}} :
    LET ctx == NewContext("", hello, 0)
        r == DynamicOnConnect(ctx, routeCounter)
    IN /\ hello.sni \in DOMAIN Routes => routeCounter[hello.sni] < MaxCalls
       /\ listen' = [IdleListen EXCEPT !.ctx = [ctx EXCEPT !.backend = r.backend],
                                       !.result = r.result]
       /\ routeCounter' = r.counters
       /\ walk' = <<Invoked("sni-router", r.result)>>
       /\ picks' = IF r.result.action = "Continue"
                     THEN Picked(picks, hello.sni, r.backend) ELSE picks
       /\ UNCHANGED <<limit, staticCounter, proxyVars>>

UnitStatic ==
  LET ctx == NewContext("", NilHello, 0)
      r == StaticOnConnect(ctx, staticCounter)
  IN /\ staticCounter < MaxCalls
     /\ listen' = [IdleListen EXCEPT !.ctx = [ctx EXCEPT !.backend = r.backend],
                                     !.result = r.result]
     /\ staticCounter' = r.counter
     /\ walk' = <<Invoked("simple-router", r.result)>>
     /\ picks' = Picked(picks, "simple-router", r.backend)
     /\ UNCHANGED <<limit, routeCounter, proxyVars>>

UnitNext == UnitRateLimit \/ UnitDynamic \/ UnitStatic

UnitSpec == UnitInit /\ [][UnitNext]_vars

\* ------------------------- OnPacket and OnDisconnect of the other handlers
\* the three handlers before the forwarder, called per packet and at the end
\* of a connection: each returns the Result, the context and the handler's
\* own state after the call. DynamicOnPacketRouting is a router that selects
\* a backend again for every packet.
PassHandlers == {"ratelimit-global", "sni-router", "simple-router"}

HandlerState == [limit |-> limit, routeCounter |-> routeCounter,
                 staticCounter |-> staticCounter]

DynamicOnPacketRouting(ctx, st, packet, dir) ==
  LET r == DynamicOnConnect(ctx, st.routeCounter)
  IN [result |-> Result("Continue", NoError),
      ctx |-> [ctx EXCEPT !.backend = r.backend],
      st |-> [st EXCEPT !.routeCounter = r.counters]]

\* RateLimitGlobalHandler.OnPacket, OnDisconnect
RateLimitOnPacket(ctx, st, packet, dir) ==
  [result |-> Result("Continue", NoError), ctx |-> ctx, st |-> st]

RateLimitOnDisconnect(ctx, st) == [ctx |-> ctx, st |-> st]

\* DynamicHandler.OnPacket, OnDisconnect
DynamicOnPacket(ctx, st, packet, dir) ==
  [result |-> Result("Continue", NoError), ctx |-> ctx, st |-> st]

DynamicOnDisconnect(ctx, st) == [ctx |-> ctx, st |-> st]

\* StaticHandler.OnPacket, OnDisconnect
StaticOnPacket(ctx, st, packet, dir) ==
  [result |-> Result("Continue", NoError), ctx |-> ctx, st |-> st]

StaticOnDisconnect(ctx, st) == [ctx |-> ctx, st |-> st]

HandlerOnPacket(h, ctx, st, packet, dir) ==
  IF h = "ratelimit-global" THEN RateLimitOnPacket(ctx, st, packet, dir)
  ELSE IF h = "sni-router" THEN DynamicOnPacket(ctx, st, packet, dir)
  ELSE StaticOnPacket(ctx, st, packet, dir)

HandlerOnDisconnect(h, ctx, st) ==
  IF h = "ratelimit-global" THEN RateLimitOnDisconnect(ctx, st)
  ELSE IF h = "sni-router" THEN DynamicOnDisconnect(ctx, st)
  ELSE StaticOnDisconnect(ctx, st)

\* OnPacket of one of the handlers on the context of the last OnConnect
UnitPassPacket ==
  \E h \in PassHandlers, dir \in Directions, long \in BOOLEAN :
    LET packet == IF long THEN LongHeader(17, 1) ELSE ShortHeader(17, 1)
        r == HandlerOnPacket(h, listen.ctx, HandlerState, packet, dir)
    IN /\ listen' = [listen EXCEPT !.pc = "OnPacket", !.ctx = r.ctx,
                                   !.result = r.result]
       /\ walk' = <<Invoked(h, r.result)>>
       /\ limit' = r.st.limit
       /\ routeCounter' = r.st.routeCounter
       /\ staticCounter' = r.st.staticCounter
       /\ UNCHANGED <<picks, proxyVars>>

\* OnDisconnect of one of the handlers on the context of the last OnConnect
UnitPassDisconnect ==
  \E h \in PassHandlers :
    LET r == HandlerOnDisconnect(h, listen.ctx, HandlerState)
    IN /\ listen' = [listen EXCEPT !.pc = "OnDisconnect", !.ctx = r.ctx,
                                   !.result = NoResult]
       /\ walk' = <<Invoked(h, NoResult)>>
       /\ limit' = r.st.limit
       /\ routeCounter' = r.st.routeCounter
       /\ staticCounter' = r.st.staticCounter
       /\ UNCHANGED <<picks, proxyVars>>

PassNext == UnitNext \/ UnitPassPacket \/ UnitPassDisconnect

PassSpec == UnitInit /\ [][PassNext]_vars

\* --------------------------------------- Forwarder.OnPacket called directly
\* sessions are set up by OnConnect and closed by OnDisconnect, time passes,
\* and OnPacket is called with a context with or without session, in either
\* direction; listen keeps the session and the Result of the last call, and
\* a Drop on a session of the table is followed by the proxy's close of it
UnitOnPacket ==
  \E s \in Sessions \cup {NoSession}, dir \in Directions, ok \in BOOLEAN, x \in CIDs :
    LET packet == ShortHeader(x, IF s = NoSession THEN 0 ELSE Len(clientLog[s]) + 1)
        r == ForwarderOnPacket(s, packet, dir, ok)
    IN /\ Accepted < MaxPackets
       /\ listen.pc = "recv"
       /\ listen' = [IdleListen EXCEPT
                       !.s = s, !.result = r.result,
                       !.pc = IF r.result.action = "Drop" /\ s # NoSession /\ InTable(s)
                                THEN "dropped" ELSE "recv"]
       /\ walk' = <<Invoked("forwarder", r.result)>>
       /\ sess' = r.sess
       /\ IF r.written # <<>>
            THEN /\ toBackend' = [toBackend EXCEPT ![s] = @ \o r.written]
                 /\ clientLog' = [clientLog EXCEPT ![s] = Append(@, packet)]
            ELSE UNCHANGED <<toBackend, clientLog>>
       /\ UNCHANGED <<auxVars, chain, limit, routeCounter, staticCounter, sessionCounter,
                      table, closer, shutdown, picks, badWrites, pump, bufs,
                      backendQ, readLog, toClient, cids, learned>>

\* main receive loop, step 2: on chain result Drop the session is closed
\* (on_disconnect, then remove) before the next datagram is taken
PacketDropped ==
  /\ listen.pc = "dropped"
  /\ FlowCloseSession(listen.s)
  /\ listen' = [listen EXCEPT !.pc = "recv"]
  /\ UNCHANGED <<auxVars, chain, limit, routeCounter, staticCounter, sessionCounter,
                 closer, shutdown, walk, picks, badWrites, pump, bufs, backendQ,
                 readLog, toClient, toBackend, clientLog, learned>>

PacketNext ==
  \/ PacketDropped
  \/ FlowConnect
  \/ \E s \in Sessions : FlowSweep(s)
  \/ \E s \in Sessions : Expire(s)
  \/ UnitOnPacket

PacketSpec == FlowInit /\ [][PacketNext]_vars

\* ------------------------------------------ the terminator called directly
\* as in TestTerminatorHandler_OnConnect and _RefCounting: contexts are
\* connected, and a connected context is disconnected once
TermInit ==
  /\ chain = FlowChain
  /\ limit = MaxLimit
  /\ InitState

termFrame == <<downVars, reloadVars, callVars, flowVars, chain, limit, routeCounter,
               staticCounter, sessionCounter, sess, table, listen, closer,
               shutdown, walk, picks, badWrites>>

\* the route a router handler put into the context before the terminator
TermBackend(sni) == Routes[sni][1]

TermConnect(c) ==
  /\ conns[c].state = "new"
  /\ \E sni \in TermSNIs \cup {""}, routed \in BOOLEAN :
       LET ctx == [NewContext("c1", Hello(sni), 0) EXCEPT
                     !.backend = IF routed /\ sni # "" THEN TermBackend(sni) ELSE ""]
           r == TerminatorOnConnect(ctx, backendEntries)
       IN /\ backendEntries' = r.entries
          /\ conns' = [conns EXCEPT ![c] =
                         [ctx |-> r.ctx,
                          state |-> IF r.result.action = "Continue"
                                      THEN "connected" ELSE "dropped"]]
  /\ UNCHANGED termFrame

TermDisconnect(c) ==
  /\ conns[c].state = "connected"
  /\ backendEntries' = TerminatorOnDisconnect(conns[c].ctx, backendEntries)
  /\ conns' = [conns EXCEPT ![c].state = "disconnected"]
  /\ UNCHANGED termFrame

TermNext ==
  \/ \E c \in Contexts : TermConnect(c)
  \/ \E c \in Contexts : TermDisconnect(c)

TermSpec == TermInit /\ [][TermNext]_vars

\* ======================================================================
\* Properties
\* ======================================================================
Range(f) == {f[x] : x \in DOMAIN f}
InvokedHandlers == {walk[i].h : i \in 1..Len(walk)}
Established(s) == sess[s].pump # "none"

PickCount(r, b) == IF b \in DOMAIN picks[r] THEN picks[r][b] ELSE 0
PickTotal(r) == SumOver(picks[r], DOMAIN picks[r])

\* C1 (P1, close-once): the backend socket of every session OnConnect created
\* is never closed twice, and once no task holds the session any more
\* (whichever of the paths ended it: failed initial write, idle sweep,
\* inbound Drop, shutdown, or several) it has been closed exactly once.
C1_CloseOnce ==
  \A s \in Sessions :
    /\ sess[s].closes <= 1
    /\ Ended(s) => sess[s].closes = 1

\* a session that sweeper, listen task and shutdown all tried to close
C1_Witness ==
  \E s \in Sessions : Ended(s) /\ sess[s].od = 3 /\ sess[s].closes = 1

\* C2: no write to a session's backend socket begins after its closed flag
\* was set.
C2_NoWriteAfterClosed == badWrites = {}

C4_ChainPurity ==
  LET dropped == \E i \in 1..Len(walk) :
                   walk[i].action = "Drop" /\ walk[i].h # "forwarder"
      unknownSNI == /\ "sni-router" \in InvokedHandlers
                    /\ listen.ctx.hello.sni \notin DOMAIN Routes
      atLimit == /\ "ratelimit-global" \in InvokedHandlers
                 /\ listen.ctx.count >= limit
  IN (dropped \/ unknownSNI \/ atLimit) =>
       /\ listen.pc = "done"
       /\ listen.result.action = "Drop"
       /\ "forwarder" \notin InvokedHandlers
       /\ listen.ctx.session = NoSession
       /\ listen.ctx.count >= TableLen

C4_Witness ==
  /\ listen.pc = "done"
  /\ listen.result.action = "Drop"
  /\ walk[Len(walk)].h \in {"sni-router", "ratelimit-global"}
  /\ listen.ctx.count = TableLen

\* C5: the walk invokes the handlers in configured order, each at most once
\* and only after all before it returned Continue; the first Handled or Drop
\* ends it; Handled leaves the session attached for the table, Drop does not.
C5_ChainWalk ==
  /\ Len(walk) <= Len(chain)
  /\ \A i \in 1..Len(walk) :
       /\ walk[i].h = chain[i]
       /\ i < Len(walk) => walk[i].action = "Continue"
  /\ listen.pc = "chain" =>
       /\ Len(walk) = listen.idx - 1
       /\ \A i \in 1..Len(walk) : walk[i].action = "Continue"
  /\ listen.pc = "done" =>
       /\ Len(walk) >= 1
       /\ listen.result.action = walk[Len(walk)].action
       /\ listen.result.action \in {"Handled", "Drop"} \/ Len(walk) = Len(chain)
       /\ listen.result.action = "Handled" =>
            /\ listen.ctx.session \in Sessions
            /\ Established(listen.ctx.session)
       /\ listen.result.action = "Drop" =>
            \A s \in Sessions : listen.ctx.session = s => ~Established(s)

\* a walk ended by a Drop before the last handler
C5_Witness ==
  /\ listen.pc = "done"
  /\ listen.result.action = "Drop"
  /\ Len(walk) = 2
  /\ walk[1].action = "Continue"

\* C6: ratelimit-global.OnConnect returns Drop with an error exactly when
\* _session_count >= limit and Continue exactly when it is below the limit.
C6_RateLimit ==
  (Len(walk) = 1 /\ walk[1].h = "ratelimit-global") =>
    /\ walk[1].action \in {"Drop", "Continue"}
    /\ (walk[1].action = "Drop" /\ walk[1].error # NoError) <=> listen.ctx.count >= limit
    /\ (walk[1].action = "Continue" /\ walk[1].error = NoError) <=> listen.ctx.count < limit

\* a count exactly at the limit, dropped
C6_Witness ==
  /\ Len(walk) = 1
  /\ walk[1].h = "ratelimit-global"
  /\ listen.ctx.count = limit
  /\ walk[1].action = "Drop"

\* C7: with the rate limiter in the chain the table never holds more than
\* limit sessions, counting the one a finished walk is about to insert; a
\* connection that finds limit sessions is dropped by the rate limiter and
\* one that finds fewer passes it.
C7_SessionLimit ==
  LET pending == IF listen.pc = "done" /\ listen.result.action = "Handled"
                   THEN 1 ELSE 0
  IN /\ TableLen + pending <= limit
     /\ \A i \in 1..Len(walk) :
          walk[i].h = "ratelimit-global" =>
            (walk[i].action = "Drop" <=> listen.ctx.count >= limit)

\* limit sessions exist and a further connection was dropped at on_connect
C7_Witness ==
  /\ TableLen = limit
  /\ listen.pc = "done"
  /\ listen.result.action = "Drop"
  /\ walk[Len(walk)].h = "ratelimit-global"

\* C8 (P4, round-robin): a router instance that has made K selections among
\* its N backends made the k-th one of backends[(k-1) mod N]; so each backend
\* was selected K/N +/- 1 times, and the last call returned Continue with the
\* K-th of them in ctx["backend"].
C8_RoundRobin ==
  \A r \in Routers :
    LET B == BackendsOf(r)
        N == Len(B)
        K == CounterOf(r)
        last == /\ Len(walk) = 1
                /\ walk[1].action = "Continue"
                /\ IF r = "simple-router" THEN walk[1].h = "simple-router"
                   ELSE walk[1].h = "sni-router" /\ listen.ctx.hello.sni = r
    IN /\ PickTotal(r) = K
       /\ DOMAIN picks[r] \subseteq Range(B)
       /\ \A j \in 1..N :
            /\ PickCount(r, B[j]) = Cardinality({k \in 1..K : (k - 1) % N = j - 1})
            /\ N * PickCount(r, B[j]) >= K - N
            /\ N * PickCount(r, B[j]) <= K + N
       /\ last => K >= 1 /\ listen.ctx.backend = B[((K - 1) % N) + 1]

\* four connections to a.com went to b1, b2, b1, b2; three to the
\* simple-router went to s1, s2, s3
C8_Witness ==
  /\ PickCount("a.com", "b1") = 2
  /\ PickCount("a.com", "b2") = 2
  /\ PickCount("simple-router", "s3") = 1
  /\ listen.ctx.backend = "b2"

\* C9: an OnConnect of the sni-router for SNI a advances route a's counter by
\* one and leaves the counter of every other route unchanged; no other step
\* changes a route counter.
C9_PerRouteCounter ==
  [][\A a \in DOMAIN Routes :
       routeCounter'[a] # routeCounter[a] =>
         /\ walk'[Len(walk')].h = "sni-router"
         /\ listen'.ctx.hello.sni = a
         /\ routeCounter'[a] = routeCounter[a] + 1
         /\ \A b \in DOMAIN Routes \ {a} : routeCounter'[b] = routeCounter[b]]_vars

\* connections to a.com and b.com interleaved
C9_Witness ==
  /\ routeCounter["a.com"] = 2
  /\ routeCounter["b.com"] = 1
  /\ listen.ctx.backend = "b2"

\* C10: sni-router.OnConnect drops a context without ClientHello, with an
\* empty SNI or with an SNI that is no route, each with its error, leaving
\* ctx["backend"] unwritten and every route counter where it was; for a
\* configured SNI it returns Continue with a backend of that route.
C10_SniRouter ==
  /\ \A r \in DOMAIN Routes : routeCounter[r] = PickTotal(r)
  /\ (Len(walk) = 1 /\ walk[1].h = "sni-router") =>
       LET hello == listen.ctx.hello
           res == walk[1]
       IN IF ~hello.present
            THEN res.action = "Drop" /\ res.error = "no ClientHello"
                 /\ listen.ctx.backend = ""
          ELSE IF hello.sni = ""
            THEN res.action = "Drop" /\ res.error = "no SNI"
                 /\ listen.ctx.backend = ""
          ELSE IF hello.sni \notin DOMAIN Routes
            THEN res.action = "Drop" /\ res.error = "unknown SNI: " \o hello.sni
                 /\ listen.ctx.backend = ""
          ELSE res.action = "Continue" /\ res.error = NoError
               /\ listen.ctx.backend \in Range(Routes[hello.sni])

\* an unknown SNI dropped after connections were routed
C10_Witness ==
  /\ Len(walk) = 1
  /\ walk[1].h = "sni-router"
  /\ walk[1].error = "unknown SNI: other.com"
  /\ routeCounter["a.com"] = 1

\* C11 (P6), as claimed: once the pump of a session has processed a
\* long-header packet with SCID x, a short-header packet with DCID x from an
\* address that has no session is routed to that session, for as long as the
\* session is in the table.
C11_CidRoutesToLearner ==
  \A s \in Sessions : \A x \in learned[s] :
    InTable(s) =>
      \A a \in Clients :
        table[a] = NoSession => Route(a, ShortHeader(x, 0)) = s

\* C11, amended: the same, provided no other session's pump has processed a
\* long-header packet with the same SCID (the index holds one session per
\* connection ID, last writer wins, and removing that session removes the key).
\* A packet so routed is written to the backend socket of that session and
\* its sender's address becomes a key of the session.
C11_CidRekeying ==
  \A s \in Sessions : \A x \in learned[s] :
    (InTable(s) /\ \A u \in Sessions \ {s} : x \notin learned[u]) =>
      /\ cids[x] = s
      /\ \A a \in Clients :
           table[a] \in {NoSession, s} => Route(a, ShortHeader(x, 0)) = s

\* a packet with a learned DCID, sent from a second address, reached the
\* backend of the session
C11_Witness ==
  \E s \in Sessions : \E x \in learned[s] :
    /\ \A a \in Clients : table[a] = s
    /\ Len(toBackend[s]) = 2
    /\ toBackend[s][2] = ShortHeader(x, 2)

\* C14 (P2, buffer-balance): a pump holds at most one buffer, exactly while
\* it is between GetBuffer and the PutBuffer of the same iteration, and a
\* pump that has returned (read error, closed after read, client write error
\* or closed before the next read) has released every buffer it acquired.
C14_BufferBalance ==
  \A s \in Slots :
    LET holding == pump[s].pc \in {"read", "recheck", "notify", "write"}
    IN /\ bufs[s].got = bufs[s].put + (IF holding THEN 1 ELSE 0)
       /\ holding <=> pump[s].buf # NoBuffer
       /\ pump[s].pc = "exited" => bufs[s].got = bufs[s].put

\* a pump that forwarded a datagram, then read one on a closed session and
\* returned
C14_Witness ==
  \E s \in Slots :
    /\ pump[s].pc = "exited"
    /\ bufs[s].got = 2
    /\ Len(readLog[s]) = 2
    /\ Len(toClient[s]) = 1

\* C18: what is written to the backend socket is the client's datagrams byte
\* for byte (the Initial included), and what the pump writes to the client is
\* exactly the n bytes of the datagram it read, with nothing of the buffer's
\* earlier content after them.
C18_Unmodified ==
  \A s \in Slots :
    /\ toBackend[s] = clientLog[s]
    /\ Len(toClient[s]) <= Len(readLog[s])
    /\ \A i \in 1..Len(toClient[s]) : toClient[s][i] = readLog[s][i]
    /\ pump[s].pc \in {"recheck", "notify", "write"} =>
         Slice(pump[s].buf, pump[s].n) = readLog[s][Len(readLog[s])]

\* an Initial and a later packet reached the backend, a long-header packet
\* the client
C18_Witness ==
  \E s \in Slots :
    /\ Len(toBackend[s]) = 2
    /\ Len(toClient[s]) = 1
    /\ IsLong(toClient[s][1])

\* C19: the pump writes the datagrams it forwards in the order it read them,
\* and the Initial is the first thing written to the backend socket, before
\* every later packet of the session.
C19_InOrder ==
  \A s \in Slots :
    /\ \A i, j \in 1..Len(toClient[s]) :
         i < j =>
           \E k, l \in 1..Len(readLog[s]) :
             /\ k < l
             /\ readLog[s][k] = toClient[s][i]
             /\ readLog[s][l] = toClient[s][j]
    /\ toBackend[s] # <<>> =>
         /\ toBackend[s][1] = LongHeader(0, 1)
         /\ \A i \in 2..Len(toBackend[s]) : toBackend[s][i][3] = i

\* two datagrams of one session forwarded to the client, and two to the backend
C19_Witness ==
  \E s \in Slots :
    /\ Len(toClient[s]) = 2
    /\ toClient[s][1][3] = 1
    /\ Len(toBackend[s]) = 2

\* ------------------------------------------------------------------ C13
\* a live session: created, closed flag clear, backend socket open
Live(s) == sess[s].alloc /\ ~sess[s].closed /\ sess[s].closes = 0
LiveSessions == {s \in Sessions : Live(s)}
ConnectInFlight == listen.pc \in {"chain", "done"}
CloseInFlight == \E t \in Closers : closer[t].pc = "close"

C16_NoSessionAfterShutdown ==
  [][shutdown => /\ Len(walk') <= Len(walk)
                 /\ sessionCounter' = sessionCounter
                 /\ TableLen' <= TableLen]_vars

\* C16, amended: once the shutdown signal has been received the listen task
\* starts no chain walk any more, so a datagram received after the signal
\* creates no session; an on_connect that runs, a session that is created or
\* a table entry that is added after the signal belongs to the one walk that
\* was already in flight when the signal arrived.
C16_NoAcceptAfterShutdown ==
  [][shutdown =>
       /\ listen'.pc = "chain" => listen.pc = "chain"
       /\ (\/ Len(walk') > Len(walk)
           \/ sessionCounter' # sessionCounter
           \/ TableLen' > TableLen) => listen.pc \in {"chain", "done"}]_vars

\* after the signal the listen task is back in its receive loop, a session
\* was served before, and a client without session is refused
C16_Witness ==
  /\ shutdown
  /\ listen.pc = "recv"
  /\ sessionCounter >= 1
  /\ \E c \in Clients : table[c] = NoSession
  /\ ENABLED ListenRefuse

\* ------------------------------------------------------------------ C17
\* C17: after the shutdown signal every session of the table reaches Closed
\* (closed flag set, backend socket closed exactly once) and its pump
\* returns; and when the listen socket is closed, every session that was in
\* the table when the signal arrived has been transitioned to Closing.
C17_ShutdownTerminates ==
  /\ \A s \in Slots :
       (shutdown /\ InTable(s)) ~>
         (sess[s].closed /\ sess[s].closes = 1 /\ sess[s].pump = "exited")
  /\ [](listenClosed =>
          \A s \in Sessions : sess[s].id \in atSignal => sess[s].closed)

\* a session of the table at the signal is closed, its pump has returned and
\* the listen socket is closed
C17_Witness ==
  /\ listenClosed
  /\ \E s \in Sessions :
       /\ sess[s].id \in atSignal
       /\ sess[s].closed /\ sess[s].closes = 1 /\ sess[s].pump = "exited"

\* ------------------------------------------------------------------ C12
\* C12 (P5): while the sweeper keeps running, a session of the table whose
\* last activity is session_timeout or more in the past reaches Closed
\* (closed flag set, backend socket closed once, removed from the table),
\* unless a forwarded packet touches it before the sweeper visits it.
C12_IdleSweep ==
  \A s \in Slots :
    (InTable(s) /\ sess[s].idle) ~>
      (\/ sess[s].closed /\ sess[s].closes = 1 /\ ~InTable(s)
       \/ InTable(s) /\ ~sess[s].idle)

\* the sweeper has closed an idle session: flag set, socket closed, removed,
\* and it was the sweeper's own OnDisconnect call that won the CAS
C12_Witness ==
  \E s \in Sessions :
    /\ sess[s].idle
    /\ sess[s].closed /\ sess[s].closes = 1 /\ ~InTable(s)
    /\ sess[s].od = 1
    /\ ~shutdown

\* ------------------------------------------------------------------ C15
\* C15 (P9): a hot-reload closes and removes no session; a session of the
\* table that is open and whose pump runs can still forward in both
\* directions; the datagrams of a session go through the chain instance the
\* session was admitted under, and a connection that arrives after the reload
\* is walked through the new instance.
C15_ReloadSafety ==
  /\ [][reloads' # reloads =>
          /\ table' = table
          /\ admitted' = admitted
          /\ \A s \in Slots : /\ sess'[s].alloc = sess[s].alloc
                              /\ sess'[s].closed = sess[s].closed
                              /\ sess'[s].closes = sess[s].closes
                              /\ sess'[s].pump = sess[s].pump]_vars
  /\ [](\A s \in Sessions :
          (InTable(s) /\ Live(s) /\ ~listenClosed) =>
            /\ admitted[s] # NoChain /\ admitted[s].gen <= reloads
            /\ listen.pc = "recv" => ENABLED ListenPacket
            /\ sess[s].pump = "running" => ENABLED PumpForward(s))
  /\ [](listen.pc \in {"write", "closing"} => dispatch = admitted[listen.s])
  /\ [](listen.pc \in {"chain", "done"} => dispatch = CurrentChain)

\* after a reload to a different chain, a datagram of a session admitted
\* before the reload is on its way through the old chain instance and the
\* pump of the session still runs
C15_Witness ==
  /\ reloads = 1
  /\ listen.pc = "write"
  /\ admitted[listen.s].gen = 0
  /\ admitted[listen.s].handlers # chain
  /\ dispatch = admitted[listen.s]
  /\ Live(listen.s) /\ InTable(listen.s)
  /\ sess[listen.s].pump = "running"

\* ------------------------------------------------------------------ C20
\* the contexts connected with an SNI and not yet disconnected
Connected(sni) ==
  {c \in Contexts : conns[c].state = "connected" /\ conns[c].ctx.hello.sni = sni}

C21_LearnBeforeWrite ==
  \A s \in Slots :
    /\ \A i \in 1..Len(toClient[s]) :
         IsLong(toClient[s][i]) =>
           /\ toClient[s][i][2] \in learned[s]
           /\ (InTable(s) /\ \A u \in Slots \ {s} : toClient[s][i][2] \notin learned[u])
                => cids[toClient[s][i][2]] = s
    /\ (pump[s].pc = "write" /\ IsLong(Slice(pump[s].buf, pump[s].n))) =>
         Slice(pump[s].buf, pump[s].n)[2] \in learned[s]

\* a client was sent a long-header datagram of a session that is still in the
\* table, and its SCID is indexed to the session
C21_Witness ==
  \E s \in Sessions :
    /\ InTable(s)
    /\ Len(toClient[s]) >= 1
    /\ IsLong(toClient[s][1])
    /\ cids[toClient[s][1][2]] = s

\* ------------------------------------------------------------------ C22
\* C22: a pump that finds the closed flag set, at the check before the read
\* or at the check after it, returns in that step; the datagram of a read
\* that completed on a closed session is given up: last_activity is not
\* touched, no CID is indexed, nothing is written to the client, and the
\* buffer goes back to the pool.
C22_ClosedChecks ==
  [][\A s \in Slots :
       (pump[s].pc \in {"check", "recheck"} /\ IsClosed(s) /\ pump'[s] # pump[s]) =>
         /\ pump'[s].pc = "exited"
         /\ sess'[s].pump = "exited"
         /\ sess'[s].idle = sess[s].idle
         /\ toClient' = toClient
         /\ cids' = cids
         /\ learned' = learned
         /\ bufs'[s].got = bufs[s].got
         /\ bufs'[s].put = bufs[s].put + (IF pump[s].pc = "recheck" THEN 1 ELSE 0)]_vars

\* a pump has returned at the check after the read: the session is closed and
\* still due, its last datagram (long header) was read but neither indexed
\* nor written to the client
C22_Witness ==
  \E s \in Sessions :
    /\ pump[s].pc = "exited"
    /\ sess[s].closed /\ sess[s].idle
    /\ Len(readLog[s]) = Len(toClient[s]) + 1
    /\ IsLong(readLog[s][Len(readLog[s])])
    /\ readLog[s][Len(readLog[s])][2] \notin learned[s]
    /\ bufs[s].got = bufs[s].put

\* ------------------------------------------------------------------ C23
\* C23: when the read of a pump fails, the pump leaves the session in
\* Closing or Closed: as it returns, the closed flag is set and the backend
\* socket is closed.
C23_ReadErrorCloses ==
  [][\A s \in Slots :
       (pump[s].pc = "read" /\ pump'[s].pc = "exited") =>
         sess'[s].closed /\ sess'[s].closes >= 1]_vars

C25_WriteFailureEnds ==
  /\ [](\A s \in Sessions, x \in CIDs :
          ~IsClosed(s) =>
            LET r == ForwarderOnPacket(s, ShortHeader(x, 1), "Inbound", FALSE)
            IN /\ r.result.action = "Drop" /\ r.result.error # NoError
               /\ r.written = <<>>
               /\ r.attempts = 1)
  /\ [][(listen.pc = "dropped" /\ listen'.pc = "recv") =>
          /\ sess'[listen.s].closed /\ sess'[listen.s].closes = 1
          /\ ~InTable(listen.s)'
          /\ \A x \in CIDs : cids'[x] # listen.s
          /\ toBackend' = toBackend]_vars
  /\ [][\A s \in Slots : sess[s].closed => toBackend'[s] = toBackend[s]]_vars

\* a write to the backend of a session failed after an earlier datagram had
\* been forwarded: OnPacket returned Drop with the error, the proxy has
\* closed and removed the session, and the backend got no further datagram
C25_Witness ==
  /\ listen.pc = "recv"
  /\ listen.s # NoSession
  /\ listen.result = Result("Drop", "write")
  /\ sess[listen.s].closed /\ sess[listen.s].closes = 1 /\ sess[listen.s].od = 1
  /\ ~InTable(listen.s)
  /\ Len(toBackend[listen.s]) = 2

\* ------------------------- Forwarder.OnConnect, statement by statement
\* the statements of OnConnect after the dial, in program order: the Session
\* is built and attached to the context, the initial packet is written to
\* the backend, ctx.InitialPacket is cleared, the pump is started, Handled
\* is returned. OnConnectPumpFirst starts the pump before the write.
OnConnectPumpFirst == <<"session", "pump", "write", "clear", "return">>

OnConnectOrder == <<"session", "write", "clear", "pump", "return">>

OnConnectAfter(step) ==
  LET i == CHOOSE j \in 1..Len(OnConnectOrder) : OnConnectOrder[j] = step
  IN IF i = Len(OnConnectOrder) THEN "recv" ELSE OnConnectOrder[i + 1]

\* a Context that carries the datagram of the Initial
WithInitialPacket(ctx, packet) ==
  [f \in DOMAIN ctx \cup {"initialPacket"} |->
     IF f = "initialPacket" THEN packet ELSE ctx[f]]

connFrame == <<auxVars, chain, limit, routeCounter, closer, shutdown, walk, badWrites,
               bufs, backendQ, readLog, toClient, cids, learned>>

\* the listen task reads an Initial from an address without session;
\* simple-router names the backend and the forwarder's OnConnect begins
ConnReceive ==
  \E a \in Clients, res \in Residues :
    LET d == LongHeader(0, 1)
        packet == Slice(ReadInto(res, d), Len(d))
        ctx == NewContext(a, Hello("a.com"), TableLen)
        r1 == StaticOnConnect(ctx, staticCounter)
    IN /\ listen.pc = "recv"
       /\ table[a] = NoSession
       /\ HasFreeSlot
       /\ staticCounter < MaxConns
       /\ staticCounter' = r1.counter
       /\ picks' = Picked(picks, "simple-router", r1.backend)
       /\ listen' = [IdleListen EXCEPT
                       !.pc = OnConnectOrder[1],
                       !.ctx = WithInitialPacket([ctx EXCEPT !.backend = r1.backend],
                                                 packet)]
       /\ UNCHANGED <<connFrame, sess, sessionCounter, table, toBackend, clientLog, pump>>

\* ResolveUDPAddr, DialUDP, session := &Session{...}; ctx.Session = session
ConnSession ==
  /\ listen.pc = "session"
  /\ \E outcome \in {"resolve_err", "dial_err", "ok"} :
       IF outcome = "ok"
         THEN /\ sess' = [sess EXCEPT ![NextSlot] =
                            NewSession(sessionCounter + 1, listen.ctx.backend)]
              /\ sessionCounter' = sessionCounter + 1
              /\ listen' = [listen EXCEPT !.ctx.session = NextSlot,
                                          !.pc = OnConnectAfter("session")]
         ELSE /\ listen' = [IdleListen EXCEPT !.result = Result("Drop", outcome)]
              /\ UNCHANGED <<sess, sessionCounter>>
  /\ UNCHANGED <<connFrame, staticCounter, picks, table, toBackend, clientLog, pump>>

\* if len(ctx.InitialPacket) > 0 { backendConn.Write(ctx.InitialPacket) };
\* on error backendConn.Close() and Drop
ConnWrite ==
  /\ listen.pc = "write"
  /\ LET s == listen.ctx.session
     IN \E ok \in BOOLEAN :
          IF ok
            THEN /\ toBackend' = [toBackend EXCEPT
                                    ![s] = IF Len(listen.ctx.initialPacket) > 0
                                             THEN Append(@, listen.ctx.initialPacket)
                                             ELSE @]
                 /\ clientLog' = [clientLog EXCEPT ![s] = Append(@, LongHeader(0, 1))]
                 /\ listen' = [listen EXCEPT !.pc = OnConnectAfter("write")]
                 /\ sess' = sess
            ELSE /\ sess' = [sess EXCEPT ![s].closes = @ + 1]
                 /\ listen' = [IdleListen EXCEPT !.s = s,
                                                 !.result = Result("Drop", "write_err")]
                 /\ UNCHANGED <<toBackend, clientLog>>
  /\ UNCHANGED <<connFrame, staticCounter, picks, sessionCounter, table, pump>>

\* ctx.InitialPacket = nil
ConnClear ==
  /\ listen.pc = "clear"
  /\ listen' = [listen EXCEPT !.ctx.initialPacket = <<>>,
                              !.pc = OnConnectAfter("clear")]
  /\ UNCHANGED <<connFrame, staticCounter, picks, sess, sessionCounter, table,
                 toBackend, clientLog, pump>>

\* go h.backendToClient(ctx, session)
ConnPump ==
  /\ listen.pc = "pump"
  /\ LET s == listen.ctx.session
     IN /\ pump' = [pump EXCEPT ![s] = [NoPump EXCEPT !.pc = "check"]]
        /\ sess' = [sess EXCEPT ![s].pump = "running"]
  /\ listen' = [listen EXCEPT !.pc = OnConnectAfter("pump")]
  /\ UNCHANGED <<connFrame, staticCounter, picks, sessionCounter, table,
                 toBackend, clientLog>>

\* return Result{Action: Handled}; the walk completed with Handled and the
\* proxy inserts the session
ConnReturn ==
  /\ listen.pc = "return"
  /\ table' = [table EXCEPT ![listen.ctx.client] = listen.ctx.session]
  /\ listen' = [IdleListen EXCEPT !.s = listen.ctx.session,
                                  !.result = Result("Handled", NoError)]
  /\ UNCHANGED <<connFrame, staticCounter, picks, sess, sessionCounter,
                 toBackend, clientLog, pump>>

ConnNext ==
  \/ ConnReceive
  \/ ConnSession
  \/ ConnWrite
  \/ ConnClear
  \/ ConnPump
  \/ ConnReturn
  \/ \E s \in Sessions : BackendEmit(s)
  \/ \E s \in Sessions : PumpCheck(s)
  \/ \E s \in Sessions : PumpRead(s)
  \/ \E s \in Sessions : PumpRecheck(s)
  \/ \E s \in Sessions : PumpNotify(s)
  \/ \E s \in Sessions : PumpWrite(s)

ConnSpec == FlowInit /\ [][ConnNext]_vars

\* ------------------------------------------------------------------ C26
\* C26: OnConnect runs in this order: the session exists and is attached to
\* the context before the initial packet is written, the packet is written
\* before ctx.InitialPacket is cleared, and the pump is started only after
\* both; so whenever a session's pump runs or a backend datagram has been
\* written to its client, the initial packet is the first datagram its
\* backend was sent.
C26_ConnectOrder ==
  /\ listen.pc \in {"write", "clear", "pump", "return"} =>
       /\ listen.ctx.session \in Sessions
       /\ ~InTable(listen.ctx.session)
  /\ listen.pc = "write" =>
       /\ listen.ctx.initialPacket = LongHeader(0, 1)
       /\ toBackend[listen.ctx.session] = <<>>
  /\ listen.pc \in {"clear", "pump", "return"} =>
       toBackend[listen.ctx.session] = <<LongHeader(0, 1)>>
  /\ listen.pc \in {"pump", "return"} => listen.ctx.initialPacket = <<>>
  /\ listen.pc \in {"write", "clear", "pump"} =>
       /\ pump[listen.ctx.session].pc = "none"
       /\ backendQ[listen.ctx.session] = <<>>
       /\ toClient[listen.ctx.session] = <<>>
  /\ \A s \in Sessions :
       (pump[s].pc # "none" \/ readLog[s] # <<>> \/ toClient[s] # <<>>) =>
         /\ toBackend[s] # <<>>
         /\ toBackend[s][1] = LongHeader(0, 1)

\* OnConnect has returned Handled, and the pump it started has relayed a
\* backend datagram to the client of a session whose backend has the Initial
C26_Witness ==
  \E s \in Sessions :
    /\ InTable(s)
    /\ toBackend[s] = <<LongHeader(0, 1)>>
    /\ Len(toClient[s]) >= 1
    /\ listen.pc = "recv"

\* ------------------------------------------------------------------ C27
\* C27: once remove(session) has returned (the closing task has run
\* OnDisconnect and removed the session), no client address and no
\* connection ID maps to that session, whatever its pump does meanwhile.
C27_RemoveComplete ==
  \A s \in Sessions :
    sess[s].od >= 1 =>
      /\ ~InTable(s)
      /\ \A x \in CIDs : cids[x] # s

\* ------------------------------------------------------------------ C28
\* C28: a router that its constructor returned without error has at least
\* one route and a non-empty backend list for each; and for every value of
\* the counter, the last one before the wrap to 0 included, the selection
\* takes an index in 0..N-1 and leaves a counter within the word.
C28_ModuloSafe ==
  built.ok =>
    /\ DOMAIN built.routes # {}
    /\ \A r \in DOMAIN built.routes : Len(built.routes[r]) >= 1
    /\ \A r \in DOMAIN built.routes :
         /\ built.counters[r] \in 0..(CounterWord - 1)
         /\ \A c \in 0..(CounterWord - 1) :
              LET n == BuiltNextOf(r, c)
                  N == Len(built.routes[r])
              IN /\ n.index \in 0..(N - 1)
                 /\ n.backend = built.routes[r][n.index + 1]
                 /\ n.counter \in 0..(CounterWord - 1)
                 /\ (c = CounterWord - 1) => n.counter = 0
    /\ built.index \in 0..(MaxList - 1)

\* a route of three backends (three does not divide the word) whose counter
\* has just wrapped to 0: the call that wrapped it selected index
\* (CounterWord - 1) % 3
C28_Witness ==
  /\ built.ok
  /\ built.wrapped
  /\ \E r \in DOMAIN built.routes :
       /\ Len(built.routes[r]) = 3
       /\ built.counters[r] = 0
       /\ built.index = (CounterWord - 1) % 3

\* ------------------------------------------------------------------ C29
\* C29: however the OnConnect calls of several tasks on one sni-router
\* interleave, every call for a configured SNI returns Continue with a
\* backend of that SNI's route, no two calls on one route get the same
\* counter value, and of the K calls made on a route of N backends each
\* backend is selected K/N times, rounded down or up.
Called(r) == {t \in Tasks : callers[t].pc \in {"return", "done"} /\ callers[t].sni = r}

C29_ConcurrentCalls ==
  /\ \A r \in DOMAIN Routes : \A t \in Called(r) :
       /\ callers[t].result = Result("Continue", NoError)
       /\ callers[t].backend # ""
       /\ \E i \in 1..Len(Routes[r]) : callers[t].backend = Routes[r][i]
  /\ \A r \in DOMAIN Routes : \A t \in Called(r), u \in Called(r) :
       t # u => callers[t].value # callers[u].value
  /\ \A r \in DOMAIN Routes : \A i \in 1..Len(Routes[r]) :
       LET K == Cardinality(Called(r))
           N == Len(Routes[r])
           k == Cardinality({t \in Called(r) : callers[t].backend = Routes[r][i]})
       IN k >= K \div N /\ k <= (K + N - 1) \div N

\* every task has called for "a.com" and two or more of the calls were in
\* flight together: past next(), not yet returned
C29_Witness ==
  /\ Called("a.com") = Tasks
  /\ Cardinality({t \in Tasks : callers[t].pc = "return"}) >= 2

\* ------------------------------------------------------------------ C30
\* C30: a reload whose configuration fails validation, or whose listen
\* value differs from the bound address, is rejected with an error and
\* changes nothing: chain, limits, counters, sessions (their timeouts
\* included), table and listen task stay as they are and the proxy is not
\* shut down; and no reload, accepted or not, rebinds or closes the listen
\* socket.
C30_ReloadRejected ==
  /\ [](reloaded.bound = ListenAddr)
  /\ [][reloaded'.requests # reloaded.requests =>
          /\ reloaded'.bound = reloaded.bound
          /\ listenClosed' = listenClosed
          /\ (~reloaded'.valid \/ reloaded'.listen # reloaded.bound) =>
               /\ reloaded'.error # NoError
               /\ chain' = chain /\ limit' = limit
               /\ routeCounter' = routeCounter /\ staticCounter' = staticCounter
               /\ sessionCounter' = sessionCounter
               /\ sess' = sess /\ table' = table
               /\ admitted' = admitted /\ reloads' = reloads
               /\ listen' = listen /\ shutdown' = shutdown]_vars

\* a reload that named another listen address was rejected, and the listen
\* task is serving a datagram of a live session afterwards
C30_Witness ==
  /\ reloaded.requests = 1
  /\ reloaded.error = "listen"
  /\ reloads = 0
  /\ listen.pc = "write"
  /\ Live(listen.s) /\ InTable(listen.s)

\* ------------------------------------------------------------------ C31
\* C31: OnPacket of ratelimit-global, sni-router and simple-router returns
\* Continue for every packet in both directions, and neither it nor
\* OnDisconnect changes a round-robin counter, the limit or the context
\* (ctx["backend"] and _session_count included); and no call of these
\* handlers, OnConnect included, changes the session table or its size.
C31_PassThrough ==
  /\ [](\A h \in PassHandlers, dir \in Directions, long \in BOOLEAN :
          LET packet == IF long THEN LongHeader(17, 1) ELSE ShortHeader(17, 1)
              p == HandlerOnPacket(h, listen.ctx, HandlerState, packet, dir)
              d == HandlerOnDisconnect(h, listen.ctx, HandlerState)
          IN /\ p.result = Result("Continue", NoError)
             /\ p.ctx = listen.ctx /\ p.st = HandlerState
             /\ d.ctx = listen.ctx /\ d.st = HandlerState)
  /\ [][listen'.pc \in {"OnPacket", "OnDisconnect"} =>
          /\ routeCounter' = routeCounter /\ staticCounter' = staticCounter
          /\ limit' = limit /\ picks' = picks
          /\ listen'.ctx = listen.ctx]_vars
  /\ [][table' = table /\ sess' = sess /\ TableLen' = TableLen]_vars

\* OnPacket was called on a context whose backend the sni-router had set
\* after two selections on the route, and both are as they were
C31_Witness ==
  /\ listen.pc = "OnPacket"
  /\ listen.result = Result("Continue", NoError)
  /\ walk = <<Invoked("sni-router", Result("Continue", NoError))>>
  /\ listen.ctx.backend = "b2"
  /\ routeCounter["a.com"] = 2

\* ------------------------------------------------------------------ C32
\* C32: `backend` and `backends` of the simple-router are mutually
\* exclusive: a construction that returns a handler was not given a
\* configuration with both keys set.
BothKeys(cfg) == cfg.json = "ok" /\ cfg.backend # "" /\ Len(cfg.backends) > 0

C32_MutuallyExclusive ==
  [][(built.kind = "none" /\ built'.kind = "simple-router" /\ built'.ok) =>
       ~\E cfg \in StaticConfigs : BothKeys(cfg) /\ NewStaticHandler(cfg) = built']_vars

\* ------------------------------------------------------------------ C33
\* C33: session IDs are assigned monotonically: a newly created session gets
\* an ID greater than the ID of every session created before it that is
\* still in memory, so no two sessions share an ID.
C33_MonotonicIds ==
  [][\A s \in Slots :
       (~sess[s].alloc /\ sess'[s].alloc) =>
         \A u \in Sessions : sess'[s].id > sess[u].id]_vars

ForwarderDropped ==
  /\ listen.pc = "done"
  /\ Len(walk) > 0
  /\ walk[Len(walk)].h = "forwarder"
  /\ walk[Len(walk)].action = "Drop"

C35_DropLeavesNothing ==
  ForwarderDropped =>
    /\ listen.ctx.session = NoSession
    /\ \A s \in Slots :
         (sess[s].alloc /\ sess[s].pump = "none") => sess[s].closes = 1

\* C36: in every reachable state a session that was created successfully and
\* whose closed flag is not set has a running backend-to-client pump: the
\* pump has not returned (read error, read deadline, client write error)
\* while the session is open.
C36_OpenSessionHasPump ==
  \A s \in Slots :
    (sess[s].alloc /\ Established(s) /\ ~sess[s].closed) =>
      /\ sess[s].pump = "running"
      /\ pump[s].pc # "exited"

====
